---- MODULE Spec2Model ----
(***************************************************************************)
(* Above the Clouds (src/src/main.c, final version of the game starting at *)
(* line 1909): the frame-stepped simulation core.  One frame of the main   *)
(* loop is the action Update (input polling, timers, repair completion,    *)
(* world interaction, respawn) followed by the overlay handlers that the   *)
(* frame calls in order: DrawInventoryScreen, DrawWorkbenchUI,             *)
(* DrawTradeScreenUI, DrawDataLogViewer.  pc is the position inside the    *)
(* frame; pc = "update" is the frame boundary.                             *)
(*                                                                         *)
(* Numbers.  `condition' and `baseRepairBonus' are C floats.  They are     *)
(* modelled as IEEE-754 binary32 values, stored as integers in units of    *)
(* 2^-29 (every binary32 value in [2^-6, 2) is a whole number of such      *)
(* units), with round-to-nearest-even addition and division.  Time is      *)
(* counted in ticks of 0.2 s: every frame delta is a whole number of       *)
(* ticks.  World coordinates are whole pixels.                             *)
(***************************************************************************)
EXTENDS Integers, Sequences, FiniteSets, TLC

(***************************************************************************)
(* binary32 arithmetic                                                     *)
(***************************************************************************)
F32Unit == 2^29

RECURSIVE UlpFrom(_, _, _)
UlpFrom(v, top, s) ==
    IF v >= top \/ s = 1 THEN s ELSE UlpFrom(v, top \div 2, s \div 2)

\* Spacing of binary32 values around v (in units), for v < 2.0.
F32Ulp(v) == UlpFrom(v, F32Unit, 64)

\* The binary32 value nearest to q + rnum/rden units, ties to even.
F32Round(q, rnum, rden) ==
    LET s    == F32Ulp(q)
        m    == q \div s
        twice == 2 * ((q % s) * rden + rnum)
        half == s * rden
    IN  IF twice > half THEN (m + 1) * s
        ELSE IF twice < half THEN m * s
        ELSE IF m % 2 = 0 THEN m * s ELSE (m + 1) * s

\* a + b in binary32.
F32Add(a, b) == F32Round(a + b, 0, 1)

\* n / d in binary32, for small whole n and d (n / d = 0 or >= 2^-6).
F32Div(n, d) ==
    LET lo == n * (F32Unit % d)
    IN  F32Round(n * (F32Unit \div d) + lo \div d, lo % d, d)

\* The float literals of the program.
F32_0_1  == F32Div(1, 10)
F32_0_2  == F32Div(2, 10)
F32_0_25 == F32Div(25, 100)
F32_0_3  == F32Div(3, 10)
F32_0_8  == F32Div(8, 10)
F32_1_0  == F32Unit

(***************************************************************************)
(* Program constants                                                       *)
(***************************************************************************)
MAX_INVENTORY == 10
NUM_ITEM_TYPES == 5
WORLD_WIDTH == 4000
WORLD_HEIGHT == 4000
PICKUP_RADIUS == 50
GATE_INTERACT_RADIUS == 70
WORKBENCH_INTERACT_RADIUS == 60
WORKBENCH_X == WORLD_WIDTH \div 2 - 100 + 80 \div 2
WORKBENCH_Y == WORLD_HEIGHT \div 2 - 80 + 60 - 18
\* Mutant: the gate stands at the village centre, its offset left out.
GateAtVillageCentre == WORLD_WIDTH \div 2

GATE_X == WORLD_WIDTH \div 2 + 200
GATE_Y == WORLD_HEIGHT \div 2

\* ITEM_TYPES[i].category
ItemCategory(typeIndex) ==
    CASE typeIndex = 0 -> "ELECTRONICS"
      [] typeIndex = 1 -> "ELECTRONICS"
      [] typeIndex = 2 -> "POWER"
      [] typeIndex = 3 -> "OPTICS"
      [] typeIndex = 4 -> "STRUCTURAL"

Categories == {"ELECTRONICS", "POWER", "OPTICS", "STRUCTURAL"}

(***************************************************************************)
(* Model resolution                                                        *)
(***************************************************************************)
\* Ticks per second of frame time (one tick = 0.2 s).
TicksPerSecond == 5

\* Ticks of a short frame.
ShortFrame == 2
\* World items in the model (the program has NUM_SCAVENGE_ITEMS = 18).
NumItems == 1

Seconds(n) == n * TicksPerSecond
\* n tenths of a second, in ticks.
Tenths(n) == (n * TicksPerSecond) \div 10

REPAIR_DURATION == Seconds(2)          \* repairTimer >= 2.0f
FULL_MSG_DURATION == Seconds(2)        \* 2.0f
TOKEN_ANIM_DURATION == Tenths(4)       \* 0.4f
RESPAWN_BASE == Seconds(60)            \* 60.0f + GetRandomValue(0, 30)
STORM_RAMP == Seconds(5)               \* stormDuration = 5.0f (Building, Fading)
\* stormSpeedMult in thousandths: 1.0f and 0.7f.
SPEED_FULL == 1000
SPEED_STORM == 700
\* PLAYER_SPEED (175 px/s) per tick.
PLAYER_SPEED == 175
PixelsPerTick == PLAYER_SPEED \div TicksPerSecond

(***************************************************************************)
(* Screen layout (screen space, 1280 x 720): the rectangles the overlay    *)
(* handlers test the mouse position against.                               *)
(***************************************************************************)
screenWidth == 1280
screenHeight == 720

Rect(x, y, w, h) == [x |-> x, y |-> y, w |-> w, h |-> h]
NoClick == <<-1, -1>>
\* mouse.x >= r.x && mouse.x < r.x + r.w && mouse.y >= r.y && mouse.y < r.y + r.h
Hit(m, r) ==
    /\ m # NoClick
    /\ m[1] >= r.x /\ m[1] < r.x + r.w
    /\ m[2] >= r.y /\ m[2] < r.y + r.h
Inside(r) == <<r.x + r.w \div 2, r.y + r.h \div 2>>

\* DrawInventoryScreen
InvPanelH(maxInv) ==
    LET h0 == 82 + maxInv * 44 + 30
        h1 == IF h0 < 500 THEN 500 ELSE h0
        logsNeeded == 46 + 34 + 10 + 5 * 64 + 30
    IN  IF h1 < logsNeeded THEN logsNeeded ELSE h1
InvPanelX == screenWidth \div 2 - 560 \div 2
InvPanelY(maxInv) == screenHeight \div 2 - InvPanelH(maxInv) \div 2
InvTabRect(t, maxInv) ==
    Rect(InvPanelX + 560 \div 2 - (120 * 2 + 8) \div 2 + t * (120 + 8),
         InvPanelY(maxInv) + 56, 120, 34)
InvLogRowRect(i, maxInv) ==
    Rect(InvPanelX + 12, InvPanelY(maxInv) + 56 + 34 + 8 + 4 + i * 64,
         560 - 12 * 2, 64)

\* DrawWorkbenchUI
WbPanelX == screenWidth \div 2 - 900 \div 2
WbPanelY == screenHeight \div 2 - 560 \div 2
WbRowRect(i) == Rect(WbPanelX + 20, WbPanelY + 56 + 22 + i * 52, 240, 52 - 2)
WbRepairRect == Rect(WbPanelX + 660 + (220 - 160) \div 2, WbPanelY + 80, 160, 50)
WbCloseRect == Rect(WbPanelX + 900 - 140, WbPanelY + 560 - 50, 120, 36)

\* DrawDataLogViewer
ViewerPanelX == screenWidth \div 2 - 760 \div 2
ViewerPanelY == screenHeight \div 2 - 580 \div 2
ViewerCloseRect ==
    Rect(ViewerPanelX + 760 \div 2 - 120 \div 2, ViewerPanelY + 580 - 36 - 12,
         120, 36)

\* DrawTradeScreenUI
TradePanelX == screenWidth \div 2 - 940 \div 2
TradePanelY == screenHeight \div 2 - 580 \div 2
TradeRowRect(i) == Rect(TradePanelX + 16, TradePanelY + 66 + 20 + i * 48, 260, 48 - 2)
\* The coin is drawn larger while the token animation runs, which moves
\* the TRADE button down by 4 pixels.
TradeBtnRect(animTimer) ==
    LET coinR  == IF animTimer > 0 THEN 32 ELSE 28
        coinCY == TradePanelY + 66 + 24 + 40
    IN  Rect(TradePanelX + 292 + 200 \div 2 - 160 \div 2, coinCY + coinR + 12 + 14,
             160, 44)
ShopCardX == TradePanelX + 508 + (416 - 390) \div 2
ShopY == TradePanelY + 66 + 22
\* BUY button of shop card n (0 data log, 1 tool upgrade, 2 carry upgrade).
BuyBtnRect(n) ==
    Rect(ShopCardX + 390 - 80 - 8, ShopY + (68 + 8) * n + 68 \div 2 - 32 \div 2,
         80, 32)
TradeCloseRect ==
    Rect(TradePanelX + 940 \div 2 - 140 \div 2, TradePanelY + 580 - 36 - 12, 140, 36)

(***************************************************************************)
(* State                                                                   *)
(***************************************************************************)
VARIABLES
    pc,                     \* position in the frame: "update", "inventory",
                            \* "workbench", "trade", "viewer"
    keyEscape,              \* IsKeyPressed(KEY_ESCAPE) of the current frame
    mouseClick,             \* mouse position of this frame's left click, or NoClick
    playerPos,
    worldItems,             \* [typeIndex, condition, position, active, respawnTimer]
    inventory,              \* [typeIndex, condition, occupied], MAX_INVENTORY slots
    workbenchState, repairSlot, sacrificeSlot, repairTimer,
    tokenCount, tradeScreenOpen, dataLogsPurchased,
    toolUpgradePurchased, carryUpgradePurchased,
    maxInventory, baseRepairBonus, tokenAnimTimer, selectedTradeSlot,
    dataLogViewerOpen, dataLogViewerIndex,
    fullMsgTimer, inventoryOpen, inventoryTab,
    stormState,             \* "Calm", "Building", "Active", "Fading"
    stormTimer, stormDuration,
    stormSpeedMult,         \* in thousandths
    stormPhase,             \* in thousandths: progress through the current state
    tradeIns,               \* history: the trade-ins made so far
    dayTimer,               \* in ticks
    facing,                 \* in thousandths
    stormElapsed,           \* history: frame time since the storm was last set to Calm
    stormCycle              \* history: the durations of the cycle's states so far, summed

inputVars == <<keyEscape, mouseClick>>
worldVars == <<playerPos, worldItems, fullMsgTimer>>
benchVars == <<workbenchState, repairSlot, sacrificeSlot, repairTimer>>
shopVars  == <<tokenCount, dataLogsPurchased, toolUpgradePurchased,
               carryUpgradePurchased, maxInventory, baseRepairBonus>>
tradeVars == <<tradeScreenOpen, tokenAnimTimer, selectedTradeSlot>>
viewerVars == <<dataLogViewerOpen, dataLogViewerIndex>>
invUiVars == <<inventoryOpen, inventoryTab>>
stormVars == <<stormState, stormTimer, stormDuration, stormSpeedMult, stormPhase,
               stormElapsed, stormCycle>>
sceneVars == <<dayTimer, facing>>
vars == <<pc, inputVars, worldVars, inventory, benchVars, shopVars, tradeVars,
          viewerVars, invUiVars, stormVars, sceneVars, tradeIns>>

Slots == 0 .. MAX_INVENTORY - 1
\* The world items of the model (the program has NUM_SCAVENGE_ITEMS = 18).
Items == DOMAIN worldItems
EmptySlot == [typeIndex |-> 0, condition |-> 0, occupied |-> FALSE]

(***************************************************************************)
(* Inventory                                                               *)
(***************************************************************************)
CountInventory(inv, maxInv) ==
    Cardinality({i \in 0 .. maxInv - 1 : inv[i].occupied})

\* Mutant: the scan runs over the whole array instead of the first maxInv slots.
AddToInventoryWholeArray(inv, typeIndex, condition, maxInv) ==
    LET free == {i \in Slots : ~inv[i].occupied}
    IN  IF free = {} THEN [ok |-> FALSE, inventory |-> inv]
        ELSE LET i == CHOOSE j \in free : \A k \in free : j <= k
             IN  [ok |-> TRUE,
                  inventory |-> [inv EXCEPT ![i] =
                      [typeIndex |-> typeIndex, condition |-> condition,
                       occupied |-> TRUE]]]

\* Mutant: the item is stored at the index CountInventory gives, as if the
\* occupied slots had no holes.
AddToInventoryAtCount(inv, typeIndex, condition, maxInv) ==
    LET count == Cardinality({i \in 0 .. maxInv - 1 : inv[i].occupied})
    IN  IF count >= maxInv THEN [ok |-> FALSE, inventory |-> inv]
        ELSE [ok |-> TRUE,
              inventory |-> [inv EXCEPT ![count] =
                  [typeIndex |-> typeIndex, condition |-> condition,
                   occupied |-> TRUE]]]

\* Fills the first unoccupied slot below maxInv; ok is the return value.
AddToInventory(inv, typeIndex, condition, maxInv) ==
    LET free == {i \in 0 .. maxInv - 1 : ~inv[i].occupied}
    IN  IF free = {} THEN [ok |-> FALSE, inventory |-> inv]
        ELSE LET i == CHOOSE j \in free : \A k \in free : j <= k
             IN  [ok |-> TRUE,
                  inventory |-> [inv EXCEPT ![i] =
                      [typeIndex |-> typeIndex, condition |-> condition,
                       occupied |-> TRUE]]]

\* inventory[slot].occupied = false; inventory[slot].condition = 0.0f;
ClearSlot(inv, slot) ==
    [inv EXCEPT ![slot].occupied = FALSE, ![slot].condition = 0]

\* 0.3f + GetRandomValue(0, 600) / 1000.0f
SpawnCondition(roll) == F32Add(F32_0_3, F32Div(roll, 1000))

(***************************************************************************)
(* Construction (main, before the game loop)                               *)
(***************************************************************************)
\* The items of the world are placed and typed at random; Worlds is the set
\* of item fields a specification starts from.
\* The sandstorm system at construction; the first calm lasts one of calms
\* seconds (GetRandomValue(6000, 12000) / 100.0f).
CALM_MIN == 60
StormInit(calms) ==
    /\ stormState = "Calm"
    /\ stormTimer \in {Seconds(c) : c \in calms}
    /\ stormDuration = 0
    /\ stormSpeedMult = SPEED_FULL
    /\ stormPhase = 0
    /\ stormElapsed = 0
    /\ stormCycle = stormTimer

\* float dayTimer = 45.0f; Vector2 facing = { 0.0f, 1.0f };
SceneInit ==
    /\ dayTimer = Seconds(45)
    /\ facing = <<0, 1000>>

InitWith(Worlds) ==
    /\ pc = "update"
    /\ keyEscape = FALSE
    /\ mouseClick = NoClick
    /\ playerPos = <<WORLD_WIDTH \div 2, WORLD_HEIGHT \div 2>>
    /\ worldItems \in Worlds
    /\ inventory = [i \in Slots |-> EmptySlot]
    /\ workbenchState = "Closed"
    /\ repairSlot = -1
    /\ sacrificeSlot = -1
    /\ repairTimer = 0
    /\ tokenCount = 0
    /\ tradeIns = 0
    /\ tradeScreenOpen = FALSE
    /\ dataLogsPurchased = 0
    /\ toolUpgradePurchased = FALSE
    /\ carryUpgradePurchased = FALSE
    /\ maxInventory = 8
    /\ baseRepairBonus = F32_0_2
    /\ tokenAnimTimer = 0
    /\ selectedTradeSlot = -1
    /\ dataLogViewerOpen = FALSE
    /\ dataLogViewerIndex = 0
    /\ fullMsgTimer = 0
    /\ inventoryOpen = FALSE
    /\ inventoryTab = 0
    /\ StormInit({CALM_MIN})
    /\ SceneInit

\* A freshly placed world item.
NewItem(typeIndex, roll, position) ==
    [typeIndex |-> typeIndex, condition |-> SpawnCondition(roll),
     position |-> position, active |-> TRUE, respawnTimer |-> 0]

(***************************************************************************)
(* The game loop: per-frame update                                         *)
(***************************************************************************)
\* A frame's input: in.tab, in.esc, in.e are IsKeyPressed, in.w/s/a/d are
\* IsKeyDown, in.click is the mouse position of a left click (or NoClick),
\* in.dt is GetFrameTime() in ticks, in.garbage is the category an
\* out-of-bounds read of the inventory array yields, in.rnd[i] holds the
\* GetRandomValue results item i consumes should it be picked up or respawn.
Max0(v) == IF v < 0 THEN 0 ELSE v

Near(p, q, radius) ==
    (p[1] - q[1]) * (p[1] - q[1]) + (p[2] - q[2]) * (p[2] - q[2]) <= radius * radius

\* Mutant: the position is clamped only if it has left the world on both axes.
MoveClampedTogether(pos, in, speedMult) ==
    LET mx == (IF in.d THEN 1 ELSE 0) - (IF in.a THEN 1 ELSE 0)
        my == (IF in.s THEN 1 ELSE 0) - (IF in.w THEN 1 ELSE 0)
        step == (PixelsPerTick * in.dt * speedMult) \div SPEED_FULL
        len == IF mx # 0 /\ my # 0 THEN (step * 7071) \div 10000 ELSE step
        Clamp(v, hi) == IF v < 0 THEN 0 ELSE IF v > hi THEN hi ELSE v
        x == pos[1] + mx * len
        y == pos[2] + my * len
    IN  IF (x < 0 \/ x > WORLD_WIDTH) /\ (y < 0 \/ y > WORLD_HEIGHT)
        THEN <<Clamp(x, WORLD_WIDTH), Clamp(y, WORLD_HEIGHT)>>
        ELSE <<x, y>>

\* WASD movement; a diagonal is normalised (1/sqrt 2, cut to whole pixels).
\* speedMult is stormSpeedMult in thousandths.
Move(pos, in, speedMult) ==
    LET mx == (IF in.d THEN 1 ELSE 0) - (IF in.a THEN 1 ELSE 0)
        my == (IF in.s THEN 1 ELSE 0) - (IF in.w THEN 1 ELSE 0)
        step == (PixelsPerTick * in.dt * speedMult) \div SPEED_FULL
        len == IF mx # 0 /\ my # 0 THEN (step * 7071) \div 10000 ELSE step
        Clamp(v, hi) == IF v < 0 THEN 0 ELSE IF v > hi THEN hi ELSE v
    IN  <<Clamp(pos[1] + mx * len, WORLD_WIDTH), Clamp(pos[2] + my * len, WORLD_HEIGHT)>>

\* (repCat == sacCat) ? (baseRepairBonus + 0.1f) : baseRepairBonus
RepairBonus(repCat, sacCat, base) ==
    IF repCat = sacCat THEN F32Add(base, F32_0_1) ELSE base

\* Mutant: the bonus is added without the clamp.
RaiseConditionUnclamped(condition, bonus) ==
    F32Add(condition, bonus)

\* condition += bonus, clamped to 1.0f
RaiseCondition(condition, bonus) ==
    LET raised == F32Add(condition, bonus)
    IN  IF raised > F32_1_0 THEN F32_1_0 ELSE raised

\* The "repair complete" block: the inventory after it.  inventory[sacrificeSlot]
\* is read without a range check; with sacrificeSlot = -1 the read is out of
\* bounds and its category is whatever memory holds (garbage).
CompleteRepair(inv, rs, ss, maxInv, base, garbage) ==
    LET valid == rs >= 0 /\ rs < maxInv /\ inv[rs].occupied
        repCat == ItemCategory(inv[rs].typeIndex)
        sacCat == IF ss \in Slots THEN ItemCategory(inv[ss].typeIndex) ELSE garbage
        inv1 == IF valid
                THEN [inv EXCEPT ![rs].condition =
                         RaiseCondition(@, RepairBonus(repCat, sacCat, base))]
                ELSE inv
    IN  IF ss >= 0 /\ ss < maxInv THEN ClearSlot(inv1, ss) ELSE inv1

\* Mutant: the item loop is not in an else branch, it also runs after the gate
\* or the workbench has opened.
InteractFallThrough(st, pos, in) ==
    LET gatePos == <<GATE_X, GATE_Y>>
        wbPos == <<WORKBENCH_X, WORKBENCH_Y>>
        inReach == {i \in Items : st.worldItems[i].active
                        /\ Near(pos, st.worldItems[i].position, PICKUP_RADIUS)}
        atGate == Near(pos, gatePos, GATE_INTERACT_RADIUS)
        atBench == Near(pos, wbPos, WORKBENCH_INTERACT_RADIUS)
        opened == IF atGate /\ st.workbenchState = "Closed"
                  THEN [st EXCEPT !.tradeScreenOpen = TRUE, !.selectedTradeSlot = -1]
                  ELSE IF atBench /\ st.workbenchState = "Closed"
                  THEN [st EXCEPT !.workbenchState = "Open",
                                  !.repairSlot = -1, !.sacrificeSlot = -1]
                  ELSE st
    IN  IF inReach = {} THEN opened
        ELSE LET i == CHOOSE j \in inReach : \A k \in inReach : j <= k
                 it == st.worldItems[i]
             IN  IF CountInventory(st.inventory, st.maxInventory) < st.maxInventory
                 THEN [opened EXCEPT
                         !.inventory = AddToInventory(st.inventory, it.typeIndex,
                                         it.condition, st.maxInventory).inventory,
                         !.worldItems[i].active = FALSE,
                         !.worldItems[i].respawnTimer =
                             RESPAWN_BASE + Seconds(in.rnd[i].delay)]
                 ELSE [opened EXCEPT !.fullMsgTimer = FULL_MSG_DURATION]

\* Mutant: the gate and the workbench are checked without regard to items.
InteractGateFirst(st, pos, in) ==
    LET gatePos == <<GATE_X, GATE_Y>>
        wbPos == <<WORKBENCH_X, WORKBENCH_Y>>
        inReach == {i \in Items : st.worldItems[i].active
                        /\ Near(pos, st.worldItems[i].position, PICKUP_RADIUS)}
        atGate == Near(pos, gatePos, GATE_INTERACT_RADIUS)
        atBench == Near(pos, wbPos, WORKBENCH_INTERACT_RADIUS)
    IN  IF atGate /\ st.workbenchState = "Closed"
        THEN [st EXCEPT !.tradeScreenOpen = TRUE, !.selectedTradeSlot = -1]
        ELSE IF atBench /\ st.workbenchState = "Closed"
        THEN [st EXCEPT !.workbenchState = "Open",
                        !.repairSlot = -1, !.sacrificeSlot = -1]
        ELSE IF inReach = {} THEN st
        ELSE LET i == CHOOSE j \in inReach : \A k \in inReach : j <= k
                 it == st.worldItems[i]
             IN  IF CountInventory(st.inventory, st.maxInventory) < st.maxInventory
                 THEN [st EXCEPT
                         !.inventory = AddToInventory(st.inventory, it.typeIndex,
                                         it.condition, st.maxInventory).inventory,
                         !.worldItems[i].active = FALSE,
                         !.worldItems[i].respawnTimer =
                             RESPAWN_BASE + Seconds(in.rnd[i].delay)]
                 ELSE [st EXCEPT !.fullMsgTimer = FULL_MSG_DURATION]

\* Mutant: the pickup does not test the inventory count, it relies on
\* AddToInventory and takes the item out of the world either way.
InteractUnchecked(st, pos, in) ==
    LET gatePos == <<GATE_X, GATE_Y>>
        wbPos == <<WORKBENCH_X, WORKBENCH_Y>>
        inReach == {i \in Items : st.worldItems[i].active
                        /\ Near(pos, st.worldItems[i].position, PICKUP_RADIUS)}
        atGate == Near(pos, gatePos, GATE_INTERACT_RADIUS)
        atBench == Near(pos, wbPos, WORKBENCH_INTERACT_RADIUS)
    IN  IF inReach = {} /\ atGate /\ st.workbenchState = "Closed"
        THEN [st EXCEPT !.tradeScreenOpen = TRUE, !.selectedTradeSlot = -1]
        ELSE IF inReach = {} /\ atBench /\ st.workbenchState = "Closed"
        THEN [st EXCEPT !.workbenchState = "Open",
                        !.repairSlot = -1, !.sacrificeSlot = -1]
        ELSE IF inReach = {} THEN st
        ELSE LET i == CHOOSE j \in inReach : \A k \in inReach : j <= k
                 it == st.worldItems[i]
                 add == AddToInventory(st.inventory, it.typeIndex, it.condition,
                                       st.maxInventory)
             IN  [st EXCEPT
                     !.inventory = add.inventory,
                     !.worldItems[i].active = FALSE,
                     !.worldItems[i].respawnTimer = RESPAWN_BASE + Seconds(in.rnd[i].delay),
                     !.fullMsgTimer = IF add.ok THEN @ ELSE FULL_MSG_DURATION]

\* Mutant: the pickup takes the last item in reach, not the first.
InteractLastInReach(st, pos, in) ==
    LET gatePos == <<GATE_X, GATE_Y>>
        wbPos == <<WORKBENCH_X, WORKBENCH_Y>>
        inReach == {i \in Items : st.worldItems[i].active
                        /\ Near(pos, st.worldItems[i].position, PICKUP_RADIUS)}
        nearItem == inReach # {}
        atGate == Near(pos, gatePos, GATE_INTERACT_RADIUS)
        atBench == Near(pos, wbPos, WORKBENCH_INTERACT_RADIUS)
        OpenBench(s) == [s EXCEPT !.workbenchState = "Open",
                                  !.repairSlot = -1, !.sacrificeSlot = -1]
    IN  IF ~nearItem /\ atGate /\ st.workbenchState = "Closed"
        THEN [st EXCEPT !.tradeScreenOpen = TRUE, !.selectedTradeSlot = -1]
        ELSE IF ~nearItem /\ atBench /\ st.workbenchState = "Closed"
        THEN OpenBench(st)
        ELSE LET picked ==
                   IF ~nearItem THEN st
                   ELSE LET i == CHOOSE j \in inReach : \A k \in inReach : j >= k
                            it == st.worldItems[i]
                        IN  IF CountInventory(st.inventory, st.maxInventory) < st.maxInventory
                            THEN [st EXCEPT
                                    !.inventory = AddToInventory(st.inventory, it.typeIndex,
                                                    it.condition, st.maxInventory).inventory,
                                    !.worldItems[i].active = FALSE,
                                    !.worldItems[i].respawnTimer =
                                        RESPAWN_BASE + Seconds(in.rnd[i].delay)]
                            ELSE [st EXCEPT !.fullMsgTimer = FULL_MSG_DURATION]
             IN  IF ~nearItem /\ atBench /\ picked.workbenchState = "Closed"
                 THEN OpenBench(picked) ELSE picked

\* The E key in the world: gate, workbench or item pickup.  st carries the
\* fields the block reads and writes.
Interact(st, pos, in) ==
    LET gatePos == <<GATE_X, GATE_Y>>
        wbPos == <<WORKBENCH_X, WORKBENCH_Y>>
        inReach == {i \in Items : st.worldItems[i].active
                        /\ Near(pos, st.worldItems[i].position, PICKUP_RADIUS)}
        nearItem == inReach # {}
        atGate == Near(pos, gatePos, GATE_INTERACT_RADIUS)
        atBench == Near(pos, wbPos, WORKBENCH_INTERACT_RADIUS)
        OpenBench(s) == [s EXCEPT !.workbenchState = "Open",
                                  !.repairSlot = -1, !.sacrificeSlot = -1]
    IN  IF ~nearItem /\ atGate /\ st.workbenchState = "Closed"
        THEN [st EXCEPT !.tradeScreenOpen = TRUE, !.selectedTradeSlot = -1]
        ELSE IF ~nearItem /\ atBench /\ st.workbenchState = "Closed"
        THEN OpenBench(st)
        ELSE LET picked ==
                   IF ~nearItem THEN st
                   ELSE LET i == CHOOSE j \in inReach : \A k \in inReach : j <= k
                            it == st.worldItems[i]
                        IN  IF CountInventory(st.inventory, st.maxInventory) < st.maxInventory
                            THEN [st EXCEPT
                                    !.inventory = AddToInventory(st.inventory, it.typeIndex,
                                                    it.condition, st.maxInventory).inventory,
                                    !.worldItems[i].active = FALSE,
                                    !.worldItems[i].respawnTimer =
                                        RESPAWN_BASE + Seconds(in.rnd[i].delay)]
                            ELSE [st EXCEPT !.fullMsgTimer = FULL_MSG_DURATION]
             IN  IF ~nearItem /\ atBench /\ picked.workbenchState = "Closed"
                 THEN OpenBench(picked) ELSE picked

\* The respawn loop's do/while leaves with a position outside the village square.
RespawnAccepts(position) ==
    /\ position[1] \in 100 .. WORLD_WIDTH - 100
    /\ position[2] \in 100 .. WORLD_HEIGHT - 100
    /\ ~(/\ position[1] - WORLD_WIDTH \div 2 \in -199 .. 199
         /\ position[2] - WORLD_HEIGHT \div 2 \in -199 .. 199)

\* Mutant: a respawned item keeps what is left of its timer.
RespawnKeepsTimer(items, in) ==
    [i \in Items |->
        IF items[i].active \/ items[i].respawnTimer <= 0 THEN items[i]
        ELSE IF items[i].respawnTimer - in.dt <= 0
        THEN [NewItem(in.rnd[i].typeIndex, in.rnd[i].roll, in.rnd[i].position)
                EXCEPT !.respawnTimer = items[i].respawnTimer - in.dt]
        ELSE [items[i] EXCEPT !.respawnTimer = @ - in.dt]]

\* Mutant: the item comes back only once the timer has fallen below zero.
RespawnBelowZero(items, in) ==
    [i \in Items |->
        IF items[i].active \/ items[i].respawnTimer <= 0 THEN items[i]
        ELSE IF items[i].respawnTimer - in.dt < 0
        THEN NewItem(in.rnd[i].typeIndex, in.rnd[i].roll, in.rnd[i].position)
        ELSE [items[i] EXCEPT !.respawnTimer = @ - in.dt]]

\* Mutant: the respawn timers stand still while a screen is open.
RespawnInWorld(items, in) ==
    [i \in Items |->
        IF items[i].active \/ items[i].respawnTimer <= 0 THEN items[i]
        ELSE IF inventoryOpen \/ workbenchState # "Closed" \/ tradeScreenOpen
                \/ dataLogViewerOpen
        THEN items[i]
        ELSE IF items[i].respawnTimer - in.dt <= 0
        THEN NewItem(in.rnd[i].typeIndex, in.rnd[i].roll, in.rnd[i].position)
        ELSE [items[i] EXCEPT !.respawnTimer = @ - in.dt]]

\* Respawn timers of the inactive items.
Respawn(items, in) ==
    [i \in Items |->
        IF items[i].active \/ items[i].respawnTimer <= 0 THEN items[i]
        ELSE IF items[i].respawnTimer - in.dt <= 0
        THEN NewItem(in.rnd[i].typeIndex, in.rnd[i].roll, in.rnd[i].position)
        ELSE [items[i] EXCEPT !.respawnTimer = @ - in.dt]]

\* The first screen drawn after stage k (1 inventory, 2 workbench, 3 trade,
\* 4 log viewer); "update" when none is left: the frame ends.
StageAfter(k, invOpen, wbState, tradeOpen, viewerOpen) ==
    IF k < 1 /\ invOpen THEN "inventory"
    ELSE IF k < 2 /\ wbState # "Closed" THEN "workbench"
    ELSE IF k < 3 /\ tradeOpen THEN "trade"
    ELSE IF k < 4 /\ viewerOpen THEN "viewer"
    ELSE "update"

(***************************************************************************)
(* The sandstorm state machine                                             *)
(***************************************************************************)
\* Seconds of the shortest calm and the shortest storm:
\* GetRandomValue(6000, 12000) / 100.0f and GetRandomValue(2000, 3000) / 100.0f.
ACTIVE_MIN == 20

\* Mutant: the storm ends at once, Active is followed by Calm.
StormStepSkipsFading(s, dt, draw) ==
    LET t == s.timer - dt
    IN  IF t > 0 THEN [s EXCEPT !.timer = t]
        ELSE IF s.state = "Calm"
        THEN [s EXCEPT !.state = "Building", !.duration = STORM_RAMP, !.timer = STORM_RAMP]
        ELSE IF s.state = "Building"
        THEN [s EXCEPT !.state = "Active", !.duration = Seconds(draw.active),
                       !.timer = Seconds(draw.active), !.speedMult = SPEED_STORM]
        ELSE [s EXCEPT !.state = "Calm", !.timer = Seconds(draw.calm),
                       !.speedMult = SPEED_FULL]

\* Mutant: the end of the fading leaves the speed as the last frame set it.
StormStepKeepsSpeed(s, dt, draw) ==
    LET t == s.timer - dt
    IN  IF s.state = "Calm"
        THEN IF t <= 0
             THEN [s EXCEPT !.state = "Building", !.duration = STORM_RAMP,
                            !.timer = STORM_RAMP, !.phase = 0]
             ELSE [s EXCEPT !.timer = t]
        ELSE IF s.state = "Building"
        THEN IF t <= 0
             THEN [s EXCEPT !.state = "Active", !.duration = Seconds(draw.active),
                            !.timer = Seconds(draw.active), !.phase = 0,
                            !.speedMult = SPEED_STORM]
             ELSE [s EXCEPT !.timer = t,
                            !.phase = SPEED_FULL - (t * SPEED_FULL) \div s.duration]
        ELSE IF s.state = "Active"
        THEN IF t <= 0
             THEN [s EXCEPT !.state = "Fading", !.duration = STORM_RAMP,
                            !.timer = STORM_RAMP, !.phase = 0]
             ELSE [s EXCEPT !.timer = t, !.phase = (t * SPEED_FULL) \div s.duration]
        ELSE IF t <= 0
             THEN [s EXCEPT !.state = "Calm", !.timer = Seconds(draw.calm), !.phase = 0]
             ELSE LET stormPhase1 == (t * SPEED_FULL) \div s.duration
                  IN  [s EXCEPT !.timer = t, !.phase = stormPhase1,
                                !.speedMult = SPEED_STORM
                                    + ((SPEED_FULL - stormPhase1) * (SPEED_FULL - SPEED_STORM))
                                        \div SPEED_FULL]

\* One frame of the storm: s holds stormState, stormTimer, stormDuration,
\* stormSpeedMult and stormPhase, dt is the frame time and draw what
\* GetRandomValue yields (whole seconds).  The phase is 1 - timer / duration
\* while the storm builds and timer / duration while it is active or fades,
\* and 0 at every change of state; stormMsgAlpha is read by the drawing code
\* only.
StormStep(s, dt, draw) ==
    LET t == s.timer - dt
    IN  IF s.state = "Calm"
        THEN IF t <= 0
             THEN [s EXCEPT !.state = "Building", !.duration = STORM_RAMP,
                            !.timer = STORM_RAMP, !.phase = 0]
             ELSE [s EXCEPT !.timer = t]
        ELSE IF s.state = "Building"
        THEN IF t <= 0
             THEN [s EXCEPT !.state = "Active", !.duration = Seconds(draw.active),
                            !.timer = Seconds(draw.active), !.phase = 0,
                            !.speedMult = SPEED_STORM]
             ELSE [s EXCEPT !.timer = t,
                            !.phase = SPEED_FULL - (t * SPEED_FULL) \div s.duration]
        ELSE IF s.state = "Active"
        THEN IF t <= 0
             THEN [s EXCEPT !.state = "Fading", !.duration = STORM_RAMP,
                            !.timer = STORM_RAMP, !.phase = 0]
             ELSE [s EXCEPT !.timer = t, !.phase = (t * SPEED_FULL) \div s.duration]
        ELSE IF t <= 0
             THEN [s EXCEPT !.state = "Calm", !.timer = Seconds(draw.calm),
                            !.phase = 0, !.speedMult = SPEED_FULL]
             ELSE LET stormPhase1 == (t * SPEED_FULL) \div s.duration
                  IN  [s EXCEPT !.timer = t, !.phase = stormPhase1,
                                !.speedMult = SPEED_STORM
                                    + ((SPEED_FULL - stormPhase1) * (SPEED_FULL - SPEED_STORM))
                                        \div SPEED_FULL]

\* The storm's part of a frame.  The two history variables keep the frame
\* time of the cycle: stormElapsed since the storm was last set to Calm,
\* stormCycle the sum of the durations the cycle's states were given.
Sandstorm(dt, draw) ==
    LET s == [state |-> stormState, timer |-> stormTimer,
              duration |-> stormDuration, speedMult |-> stormSpeedMult,
              phase |-> stormPhase]
        r == StormStep(s, dt, draw)
    IN  /\ stormState' = r.state
        /\ stormTimer' = r.timer
        /\ stormDuration' = r.duration
        /\ stormSpeedMult' = r.speedMult
        /\ stormPhase' = r.phase
        /\ stormElapsed' = IF r.state = "Calm" /\ stormState # "Calm" THEN 0
                           ELSE stormElapsed + dt
        /\ stormCycle' = IF r.state = stormState THEN stormCycle
                         ELSE IF r.state = "Calm" THEN r.timer
                         ELSE stormCycle + r.duration

\* The weather stands still.  The specifications of the game play in a calm
\* that does not run out: of the storm the rest of the loop reads only
\* stormSpeedMult, which is 1.0f in Calm; SpecStorm runs the storm.
CalmWeather == UNCHANGED stormVars

\* The clock of the day and the facing are read by the drawing only
\* (DrawDayNightOverlay, DrawSunMoon, DrawZ).  The specifications of the game
\* leave them where they are; SpecDay runs the clock and SpecWalk the facing.
StillScene == UNCHANGED sceneVars

\* Mutant: the guard of the world block looks at neither the workbench nor
\* the trade screen.
WorldGuardNoActors(invOpen, wbState, tradeOpen, viewerOpen) ==
    ~invOpen /\ ~viewerOpen

\* Mutant: the guard of the world block does not look at the trade screen.
WorldGuardNoTrade(invOpen, wbState, tradeOpen, viewerOpen) ==
    ~invOpen /\ wbState = "Closed" /\ ~viewerOpen

\* Movement, pickup and interaction run only if no screen is open.
WorldGuard(invOpen, wbState, tradeOpen, viewerOpen) ==
    ~invOpen /\ wbState = "Closed" /\ ~tradeOpen /\ ~viewerOpen

\* One iteration of the game loop up to BeginDrawing, but for the sandstorm
\* step, which the frame action runs before it (Sandstorm or CalmWeather).
\* Mutant: the repair timer runs in every workbench state.
RepairTickAlways(wbState, timer, dt) == timer + dt

\* Workbench repair timer (advance while repairing).
RepairTick(wbState, timer, dt) ==
    IF wbState = "Repairing" THEN timer + dt ELSE timer

Update(in) ==
    /\ pc = "update"
    /\ \A i \in Items : RespawnAccepts(in.rnd[i].position)
    /\ LET anim1 == IF tokenAnimTimer > 0 THEN Max0(tokenAnimTimer - in.dt)
                    ELSE tokenAnimTimer
           invOpen1 == IF in.tab /\ workbenchState = "Closed" /\ ~tradeScreenOpen
                       THEN ~inventoryOpen ELSE inventoryOpen
           invOpen2 == IF in.esc /\ invOpen1 THEN FALSE ELSE invOpen1
           escTrade == in.esc /\ tradeScreenOpen
           trade1 == IF escTrade THEN FALSE ELSE tradeScreenOpen
           sel1 == IF escTrade THEN -1 ELSE selectedTradeSlot
           repairing == workbenchState = "Repairing"
           timer1 == RepairTick(workbenchState, repairTimer, in.dt)
           complete == repairing /\ timer1 >= REPAIR_DURATION
           inv1 == IF complete
                   THEN CompleteRepair(inventory, repairSlot, sacrificeSlot,
                                       maxInventory, baseRepairBonus, in.garbage)
                   ELSE inventory
           wb1 == IF complete THEN "Open" ELSE workbenchState
           rs1 == IF complete THEN -1 ELSE repairSlot
           ss1 == IF complete THEN -1 ELSE sacrificeSlot
           world == WorldGuard(invOpen2, wb1, trade1, dataLogViewerOpen)
           pos1 == IF world THEN Move(playerPos, in, stormSpeedMult') ELSE playerPos
           full1 == IF world /\ fullMsgTimer > 0 THEN Max0(fullMsgTimer - in.dt)
                    ELSE fullMsgTimer
           st1 == [tradeScreenOpen |-> trade1, selectedTradeSlot |-> sel1,
                   workbenchState |-> wb1, repairSlot |-> rs1, sacrificeSlot |-> ss1,
                   inventory |-> inv1, maxInventory |-> maxInventory,
                   worldItems |-> worldItems, fullMsgTimer |-> full1]
           st2 == IF world /\ in.e THEN Interact(st1, pos1, in) ELSE st1
       IN  /\ tokenAnimTimer' = anim1
           /\ inventoryOpen' = invOpen2
           /\ tradeScreenOpen' = st2.tradeScreenOpen
           /\ selectedTradeSlot' = st2.selectedTradeSlot
           /\ repairTimer' = timer1
           /\ inventory' = st2.inventory
           /\ workbenchState' = st2.workbenchState
           /\ repairSlot' = st2.repairSlot
           /\ sacrificeSlot' = st2.sacrificeSlot
           /\ playerPos' = pos1
           /\ fullMsgTimer' = st2.fullMsgTimer
           /\ worldItems' = Respawn(st2.worldItems, in)
           /\ pc' = StageAfter(0, invOpen2, st2.workbenchState, st2.tradeScreenOpen,
                               dataLogViewerOpen)
           /\ keyEscape' = (in.esc /\ pc' # "update")
           /\ mouseClick' = IF pc' # "update" THEN in.click ELSE NoClick
    /\ UNCHANGED <<shopVars, viewerVars, inventoryTab, tradeIns>>

\* After a screen is drawn the frame goes on to the next open screen, or ends
\* (the key and mouse state of the frame is gone).
Continue(next) ==
    /\ pc' = next
    /\ keyEscape' = (keyEscape /\ next # "update")
    /\ mouseClick' = IF next # "update" THEN mouseClick ELSE NoClick

(***************************************************************************)
(* DrawInventoryScreen                                                     *)
(***************************************************************************)
\* Mutant: the row of the log to be bought next counts as acquired.
AcquiredOrNext(i, purchased) == i <= purchased

\* bool acquired = (i < dataLogsPurchased);
Acquired(i, purchased) == i < purchased

DrawInventoryScreen ==
    /\ pc = "inventory"
    /\ LET tab1 == IF Hit(mouseClick, InvTabRect(0, maxInventory)) THEN 0
                   ELSE IF Hit(mouseClick, InvTabRect(1, maxInventory)) THEN 1
                   ELSE inventoryTab
           read == {i \in 0 .. 4 : /\ tab1 = 1
                                   /\ Acquired(i, dataLogsPurchased)
                                   /\ Hit(mouseClick, InvLogRowRect(i, maxInventory))}
       IN  /\ inventoryTab' = tab1
           /\ IF read # {}
              THEN /\ dataLogViewerOpen' = TRUE
                   /\ dataLogViewerIndex' = CHOOSE i \in read : TRUE
              ELSE UNCHANGED viewerVars
    /\ Continue(StageAfter(1, inventoryOpen, workbenchState, tradeScreenOpen,
                           dataLogViewerOpen'))
    /\ UNCHANGED <<tradeIns, sceneVars, stormVars, worldVars, inventory, benchVars, shopVars, tradeVars, inventoryOpen>>

(***************************************************************************)
(* DrawWorkbenchUI                                                         *)
(***************************************************************************)
\* Mutant: a click fills the first free selection, whatever the row.
ClickRowFirstFree(sel, i) ==
    IF sel.repairSlot = -1 THEN [sel EXCEPT !.repairSlot = i]
    ELSE IF sel.sacrificeSlot = -1 THEN [sel EXCEPT !.sacrificeSlot = i]
    ELSE sel

\* A click on the row of an occupied slot i.
ClickRow(sel, i) ==
    IF sel.repairSlot = i THEN [sel EXCEPT !.repairSlot = -1]
    ELSE IF sel.sacrificeSlot = i THEN [sel EXCEPT !.sacrificeSlot = -1]
    ELSE IF sel.repairSlot = -1 /\ i # sel.sacrificeSlot THEN [sel EXCEPT !.repairSlot = i]
    ELSE IF sel.sacrificeSlot = -1 /\ i # sel.repairSlot THEN [sel EXCEPT !.sacrificeSlot = i]
    ELSE sel

\* Mutant: the close request is honoured in every state.
WbCloseAnyState(wbState, esc, click) ==
    esc \/ Hit(click, WbCloseRect)

\* Mutant: the cancel key closes the workbench in every state.
WbCloseOnEscape(wbState, esc, click) ==
    esc \/ (wbState # "Repairing" /\ Hit(click, WbCloseRect))

\* Close on ESC or close button click (only if not repairing).
WbClose(wbState, esc, click) ==
    wbState # "Repairing" /\ (esc \/ Hit(click, WbCloseRect))

\* Mutant: a repair slot is enough.
BothFilledRepairOnly(sel, inv) ==
    sel.repairSlot >= 0 /\ inv[sel.repairSlot].occupied

\* Both the repair slot and the sacrifice slot are selected and occupied.
BothFilled(sel, inv) ==
    /\ sel.repairSlot >= 0
    /\ sel.sacrificeSlot >= 0
    /\ inv[sel.repairSlot].occupied
    /\ inv[sel.sacrificeSlot].occupied

DrawWorkbenchUI ==
    /\ pc = "workbench"
    /\ LET rows == {i \in 0 .. maxInventory - 1 :
                        inventory[i].occupied /\ Hit(mouseClick, WbRowRect(i))}
           sel0 == [repairSlot |-> repairSlot, sacrificeSlot |-> sacrificeSlot]
           sel1 == IF rows = {} THEN sel0 ELSE ClickRow(sel0, CHOOSE i \in rows : TRUE)
           bothFilled == BothFilled(sel1, inventory)
           canRepair == bothFilled /\ workbenchState = "Open"
           start == canRepair /\ Hit(mouseClick, WbRepairRect)
           wb1 == IF start THEN "Repairing" ELSE workbenchState
           close == WbClose(wb1, keyEscape, mouseClick)
       IN  /\ workbenchState' = IF close THEN "Closed" ELSE wb1
           /\ repairTimer' = IF start THEN 0 ELSE repairTimer
           /\ repairSlot' = IF close THEN -1 ELSE sel1.repairSlot
           /\ sacrificeSlot' = IF close THEN -1 ELSE sel1.sacrificeSlot
    /\ Continue(StageAfter(2, inventoryOpen, workbenchState', tradeScreenOpen,
                           dataLogViewerOpen))
    /\ UNCHANGED <<tradeIns, sceneVars, stormVars, worldVars, inventory, shopVars, tradeVars, viewerVars, invUiVars>>

(***************************************************************************)
(* DrawTradeScreenUI                                                       *)
(***************************************************************************)
\* Mutant: anything found counts as a trade good.
TradeableFromFound(slot) == slot.occupied /\ slot.condition >= F32_0_3

\* tradeable / hasSelected: condition >= 0.8f
Tradeable(slot) == slot.occupied /\ slot.condition >= F32_0_8

\* Mutant: every data log costs what the first one costs.
LogCostFlat(logs) == 2

\* int logCost = 2 + *dataLogsPurchased;
LogCost(logs) == 2 + logs
ToolCost == 3
CarryCost == 4
MaxLogs == 5

\* The trade action on the selected slot; t carries the fields it writes.
TradeIn(t) ==
    [t EXCEPT !.inventory = ClearSlot(t.inventory, t.selectedTradeSlot),
              !.tokenCount = @ + 1,
              !.tokenAnimTimer = TOKEN_ANIM_DURATION,
              !.selectedTradeSlot = -1]

\* Mutant: the log count wraps around like the index of the log shown.
BuyLogWraps(t) ==
    LET complete == t.dataLogsPurchased >= MaxLogs
        logCost == LogCost(t.dataLogsPurchased)
        canAfford == ~complete /\ t.tokenCount >= logCost
    IN  IF canAfford
        THEN [t EXCEPT !.tokenCount = @ - logCost,
                       !.tokenAnimTimer = TOKEN_ANIM_DURATION,
                       !.dataLogViewerIndex = t.dataLogsPurchased,
                       !.dataLogsPurchased = (@ + 1) % MaxLogs,
                       !.dataLogViewerOpen = TRUE]
        ELSE t

\* Mutant: the viewer is opened on the index after the log bought.
BuyLogShowsNext(t) ==
    LET complete == t.dataLogsPurchased >= MaxLogs
        logCost == LogCost(t.dataLogsPurchased)
        canAfford == ~complete /\ t.tokenCount >= logCost
    IN  IF canAfford
        THEN [t EXCEPT !.tokenCount = @ - logCost,
                       !.tokenAnimTimer = TOKEN_ANIM_DURATION,
                       !.dataLogsPurchased = @ + 1,
                       !.dataLogViewerIndex = t.dataLogsPurchased + 1,
                       !.dataLogViewerOpen = TRUE]
        ELSE t

\* Mutant: the data log is sold without looking at the token count.
BuyLogOnCredit(t) ==
    IF t.dataLogsPurchased < MaxLogs
    THEN [t EXCEPT !.tokenCount = @ - LogCost(t.dataLogsPurchased),
                   !.tokenAnimTimer = TOKEN_ANIM_DURATION,
                   !.dataLogViewerIndex = t.dataLogsPurchased,
                   !.dataLogsPurchased = @ + 1,
                   !.dataLogViewerOpen = TRUE]
    ELSE t

\* The DATA LOG card's BUY button.
BuyLog(t) ==
    LET complete == t.dataLogsPurchased >= MaxLogs
        logCost == LogCost(t.dataLogsPurchased)
        canAfford == ~complete /\ t.tokenCount >= logCost
    IN  IF canAfford
        THEN [t EXCEPT !.tokenCount = @ - logCost,
                       !.tokenAnimTimer = TOKEN_ANIM_DURATION,
                       !.dataLogViewerIndex = t.dataLogsPurchased,
                       !.dataLogsPurchased = @ + 1,
                       !.dataLogViewerOpen = TRUE]
        ELSE t

\* Mutant: the tool upgrade is sold again to a player who has it.
BuyToolAgain(t) ==
    IF t.tokenCount >= ToolCost
    THEN [t EXCEPT !.tokenCount = @ - ToolCost,
                   !.tokenAnimTimer = TOKEN_ANIM_DURATION,
                   !.toolUpgradePurchased = TRUE,
                   !.baseRepairBonus = F32_0_25]
    ELSE t

\* Mutant: a refused tool purchase still takes the tokens at hand.
BuyToolPartial(t) ==
    LET canAfford == ~t.toolUpgradePurchased /\ t.tokenCount >= ToolCost
    IN  IF canAfford
        THEN [t EXCEPT !.tokenCount = @ - ToolCost,
                       !.tokenAnimTimer = TOKEN_ANIM_DURATION,
                       !.toolUpgradePurchased = TRUE,
                       !.baseRepairBonus = F32_0_25]
        ELSE [t EXCEPT !.tokenCount = 0]

\* The TOOL UPGRADE card's BUY button.
BuyTool(t) ==
    LET canAfford == ~t.toolUpgradePurchased /\ t.tokenCount >= ToolCost
    IN  IF canAfford
        THEN [t EXCEPT !.tokenCount = @ - ToolCost,
                       !.tokenAnimTimer = TOKEN_ANIM_DURATION,
                       !.toolUpgradePurchased = TRUE,
                       !.baseRepairBonus = F32_0_25]
        ELSE t

\* Mutant: the carry upgrade is sold at the price of the tool upgrade.
BuyCarryAtToolCost(t) ==
    LET canAfford == ~t.carryUpgradePurchased /\ t.tokenCount >= ToolCost
    IN  IF canAfford
        THEN [t EXCEPT !.tokenCount = @ - ToolCost,
                       !.tokenAnimTimer = TOKEN_ANIM_DURATION,
                       !.carryUpgradePurchased = TRUE,
                       !.maxInventory = 10]
        ELSE t

\* The CARRY UPGRADE card's BUY button.
BuyCarry(t) ==
    LET canAfford == ~t.carryUpgradePurchased /\ t.tokenCount >= CarryCost
    IN  IF canAfford
        THEN [t EXCEPT !.tokenCount = @ - CarryCost,
                       !.tokenAnimTimer = TOKEN_ANIM_DURATION,
                       !.carryUpgradePurchased = TRUE,
                       !.maxInventory = 10]
        ELSE t

DrawTradeScreenUI ==
    /\ pc = "trade"
    /\ LET rows == {i \in 0 .. maxInventory - 1 :
                        Tradeable(inventory[i]) /\ Hit(mouseClick, TradeRowRect(i))}
           sel1 == IF rows = {} THEN selectedTradeSlot
                   ELSE LET i == CHOOSE j \in rows : TRUE
                        IN  IF selectedTradeSlot = i THEN -1 ELSE i
           hasSelected == /\ sel1 >= 0
                          /\ sel1 < maxInventory
                          /\ Tradeable(inventory[sel1])
           t0 == [inventory |-> inventory, tokenCount |-> tokenCount,
                  tokenAnimTimer |-> tokenAnimTimer, selectedTradeSlot |-> sel1,
                  dataLogsPurchased |-> dataLogsPurchased,
                  dataLogViewerIndex |-> dataLogViewerIndex,
                  dataLogViewerOpen |-> dataLogViewerOpen,
                  toolUpgradePurchased |-> toolUpgradePurchased,
                  baseRepairBonus |-> baseRepairBonus,
                  carryUpgradePurchased |-> carryUpgradePurchased,
                  maxInventory |-> maxInventory]
           t1 == IF hasSelected /\ Hit(mouseClick, TradeBtnRect(tokenAnimTimer))
                 THEN TradeIn(t0) ELSE t0
           t2 == IF Hit(mouseClick, BuyBtnRect(0)) THEN BuyLog(t1) ELSE t1
           t3 == IF Hit(mouseClick, BuyBtnRect(1)) THEN BuyTool(t2) ELSE t2
           t4 == IF Hit(mouseClick, BuyBtnRect(2)) THEN BuyCarry(t3) ELSE t3
           close == keyEscape \/ Hit(mouseClick, TradeCloseRect)
       IN  /\ inventory' = t4.inventory
           /\ tokenCount' = t4.tokenCount
           /\ tokenAnimTimer' = t4.tokenAnimTimer
           /\ dataLogsPurchased' = t4.dataLogsPurchased
           /\ dataLogViewerIndex' = t4.dataLogViewerIndex
           /\ dataLogViewerOpen' = t4.dataLogViewerOpen
           /\ toolUpgradePurchased' = t4.toolUpgradePurchased
           /\ baseRepairBonus' = t4.baseRepairBonus
           /\ carryUpgradePurchased' = t4.carryUpgradePurchased
           /\ maxInventory' = t4.maxInventory
           /\ tradeScreenOpen' = ~close
           /\ tradeIns' = IF hasSelected /\ Hit(mouseClick, TradeBtnRect(tokenAnimTimer))
                          THEN tradeIns + 1 ELSE tradeIns
           /\ selectedTradeSlot' = IF close THEN -1 ELSE t4.selectedTradeSlot
    /\ Continue(StageAfter(3, inventoryOpen, workbenchState, tradeScreenOpen',
                           dataLogViewerOpen'))
    /\ UNCHANGED <<sceneVars, stormVars, worldVars, benchVars, invUiVars>>

(***************************************************************************)
(* DrawDataLogViewer                                                       *)
(***************************************************************************)
DrawDataLogViewer ==
    /\ pc = "viewer"
    /\ LET outOfRange == dataLogViewerIndex < 0 \/ dataLogViewerIndex >= MaxLogs
           close == keyEscape \/ Hit(mouseClick, ViewerCloseRect)
       IN  dataLogViewerOpen' = ~(outOfRange \/ close)
    /\ Continue("update")
    /\ UNCHANGED <<tradeIns, sceneVars, stormVars, worldVars, inventory, benchVars, shopVars, tradeVars,
                   dataLogViewerIndex, invUiVars>>

(***************************************************************************)
(* Inputs                                                                  *)
(***************************************************************************)
\* The input of one frame: K is the set of keys pressed or held.
Input(K, click, dt, garbage, rnd) ==
    [tab |-> "tab" \in K, esc |-> "esc" \in K, e |-> "e" \in K,
     w |-> "w" \in K, s |-> "s" \in K, a |-> "a" \in K, d |-> "d" \in K,
     click |-> click, dt |-> dt, garbage |-> garbage, rnd |-> rnd]

\* What an item draws from GetRandomValue: respawn delay (seconds over 60),
\* type, condition roll (thousandths over 0.3) and position.
Rnd(delay, typeIndex, roll, position) ==
    [delay |-> delay, typeIndex |-> typeIndex, roll |-> roll, position |-> position]

Pending == \E i \in Items : ~worldItems[i].active /\ worldItems[i].respawnTimer > 0
InReach == \E i \in Items :
    worldItems[i].active /\ Near(playerPos, worldItems[i].position, PICKUP_RADIUS)

\* The click point lies on a control of a screen that is open.
OnControl(c) ==
    \/ /\ inventoryOpen
       /\ \/ \E t \in 0 .. 1 : Hit(c, InvTabRect(t, maxInventory))
          \/ \E i \in 0 .. 4 : Hit(c, InvLogRowRect(i, maxInventory))
    \/ /\ workbenchState # "Closed"
       /\ \/ \E i \in Slots : Hit(c, WbRowRect(i))
          \/ Hit(c, WbRepairRect)
          \/ Hit(c, WbCloseRect)
    \/ /\ tradeScreenOpen
       /\ \/ \E i \in Slots : Hit(c, TradeRowRect(i))
          \/ \E t \in 0 .. 1 : Hit(c, TradeBtnRect(t))
          \/ \E n \in 0 .. 2 : Hit(c, BuyBtnRect(n))
          \/ Hit(c, TradeCloseRect)
    \/ dataLogViewerOpen /\ Hit(c, ViewerCloseRect)

\* The frames a player of the environment env can produce in the current
\* state.  env.chords are the key sets and env.clicks the click points played
\* (a click is played on a control of an open screen, elsewhere it does nothing);
\* a frame lasts one of env.dts ticks, or one of env.longs while an item waits
\* to respawn (short frames go on during a repair); the player stays on the
\* positions env.walk, picks up items only while holding fewer than env.pack,
\* trades in only while holding fewer than env.tokens tokens and buys data
\* logs only while holding fewer than env.logs; env.rnds are the random
\* draws.  A random draw or a garbage category that the frame cannot consume
\* is fixed.
Frames(env) ==
    LET dts == IF Pending /\ workbenchState # "Repairing" THEN env.longs ELSE env.dts
        gs  == IF workbenchState = "Repairing" /\ sacrificeSlot \notin Slots
               THEN Categories ELSE {"ELECTRONICS"}
        rnd0 == CHOOSE r \in env.rnds : TRUE
        Rs(K) == {r \in [Items -> env.rnds] :
                    \A i \in Items : worldItems[i].active /\ "e" \notin K => r[i] = rnd0}
        chords == {K \in env.chords :
                    "e" \in K /\ InReach => CountInventory(inventory, maxInventory) < env.pack}
        clicks == {c \in env.clicks :
                    /\ OnControl(c)
                    /\ tradeScreenOpen /\ tokenCount >= env.tokens
                        => ~Hit(c, TradeBtnRect(0)) /\ ~Hit(c, TradeBtnRect(1))
                    /\ tradeScreenOpen /\ dataLogsPurchased >= env.logs
                        => ~Hit(c, BuyBtnRect(0))}
        keyed == UNION {{Input(K, NoClick, dt, g, r) : dt \in dts, g \in gs, r \in Rs(K)} :
                        K \in chords}
        clicked == {Input({}, c, dt, g, r) : c \in clicks, dt \in dts, g \in gs, r \in Rs({})}
    IN  {in \in keyed \cup clicked : Move(playerPos, in, stormSpeedMult) \in env.walk}

\* The places a world item can be created at: 100 to 1200 pixels from the
\* centre of the world.
InitialPlacement(position) ==
    LET dx == position[1] - WORLD_WIDTH \div 2
        dy == position[2] - WORLD_HEIGHT \div 2
    IN  dx * dx + dy * dy \in 100 * 100 .. 1200 * 1200

Worlds(env) ==
    [0 .. env.items - 1 -> {NewItem(r.typeIndex, r.roll, p) :
                  r \in env.rnds, p \in {q \in env.places : InitialPlacement(q)}}]

InvClicks(maxInv) ==
    {Inside(InvTabRect(0, maxInv)), Inside(InvTabRect(1, maxInv)),
     Inside(InvLogRowRect(0, maxInv))}
WbClicks(rows) ==
    {Inside(WbRowRect(i)) : i \in 0 .. rows - 1}
        \cup {Inside(WbRepairRect), Inside(WbCloseRect)}
TradeClicks(rows) ==
    {Inside(TradeRowRect(i)) : i \in 0 .. rows - 1}
        \cup {Inside(TradeBtnRect(0)), <<TradeCloseRect.x + 1, TradeCloseRect.y + 1>>}
\* Inside the log viewer's CLOSE button, which lies over the trade screen's.
ViewerClick == Inside(ViewerCloseRect)

\* A walk along y = 2000 in strides of one short frame: k = -1 is at the
\* workbench, 0 the centre (where the player starts), 2 at the gate, 3 at the
\* gate and on the item lying there.
Stride == ShortFrame * PixelsPerTick
Street(ks) == {<<WORLD_WIDTH \div 2 + k * Stride, WORLD_HEIGHT \div 2>> : k \in ks}
AtGate == <<GATE_X, GATE_Y>>
LongFrame == Seconds(100)

(***************************************************************************)
(* Spec: the whole game from construction.  One kind of item (tradeable as *)
(* found) lies at the gate; the player walks the street, uses every        *)
(* screen, carries up to PlayPack items, earns up to PlayTokens tokens and *)
(* buys up to PlayLogs data logs.                                          *)
(***************************************************************************)
PlayPack == 2
PlayTokens == 2
PlayLogs == 1

PlayEnv ==
    [chords |-> {{}, {"tab"}, {"esc"}, {"e"}, {"a"}, {"d"}, {"tab", "esc"}},
     clicks |-> InvClicks(8) \cup WbClicks(2) \cup TradeClicks(2)
                    \cup {Inside(BuyBtnRect(0)), ViewerClick},
     dts |-> {ShortFrame}, longs |-> {LongFrame},
     walk |-> Street(-1 .. 3),
     items |-> NumItems, pack |-> PlayPack, tokens |-> PlayTokens, logs |-> PlayLogs,
     rnds |-> {Rnd(0, 0, 500, AtGate)},
     places |-> {AtGate}]

Init == InitWith(Worlds(PlayEnv))

Frame == \E in \in Frames(PlayEnv) : CalmWeather /\ StillScene /\ Update(in)

Next ==
    \/ Frame
    \/ DrawInventoryScreen
    \/ DrawWorkbenchUI
    \/ DrawTradeScreenUI
    \/ DrawDataLogViewer

Spec == Init /\ [][Next]_vars

(***************************************************************************)
(* SpecShop: the economy from construction.  Items at the gate are found   *)
(* at condition 0.8 or just below; the player walks to the gate, carries   *)
(* ShopPack items, earns up to ShopTokens tokens and clicks every BUY      *)
(* button whether or not the purchase is allowed.                          *)
(***************************************************************************)
ShopPack == 1
ShopTokens == 6

ShopEnv ==
    [chords |-> {{}, {"esc"}, {"e"}, {"a"}, {"d"}},
     clicks |-> TradeClicks(1) \cup {Inside(BuyBtnRect(n)) : n \in 0 .. 2}
                    \cup {ViewerClick},
     dts |-> {ShortFrame}, longs |-> {LongFrame},
     walk |-> Street(0 .. 3),
     items |-> NumItems, pack |-> ShopPack, tokens |-> ShopTokens, logs |-> MaxLogs + 1,
     rnds |-> {Rnd(0, 0, 500, AtGate), Rnd(0, 0, 499, AtGate)},
     places |-> {AtGate}]

ShopInit == InitWith(Worlds(ShopEnv))

ShopFrame == \E in \in Frames(ShopEnv) : CalmWeather /\ StillScene /\ Update(in)

ShopNext ==
    \/ ShopFrame
    \/ DrawTradeScreenUI
    \/ DrawDataLogViewer

SpecShop == ShopInit /\ [][ShopNext]_vars

(***************************************************************************)
(* SpecPack: filling the inventory from construction.  The player picks up *)
(* whatever lies at the gate, full or not, trades items in for up to       *)
(* PackTokens tokens and buys the carry upgrade.                           *)
(***************************************************************************)
PackTokens == 4

PackEnv ==
    [chords |-> {{}, {"esc"}, {"e"}, {"a"}, {"d"}},
     clicks |-> TradeClicks(2) \cup {Inside(BuyBtnRect(2))},
     dts |-> {ShortFrame}, longs |-> {LongFrame},
     walk |-> Street(0 .. 3),
     items |-> NumItems, pack |-> MAX_INVENTORY + 1, tokens |-> PackTokens, logs |-> 0,
     rnds |-> {Rnd(0, 0, 500, AtGate)},
     places |-> {AtGate}]

PackInit == InitWith(Worlds(PackEnv))

PackFrame == \E in \in Frames(PackEnv) : CalmWeather /\ StillScene /\ Update(in)

PackNext ==
    \/ PackFrame
    \/ DrawTradeScreenUI

SpecPack == PackInit /\ [][PackNext]_vars

(***************************************************************************)
(* SpecBench: a session at the workbench.  It starts in a state of play    *)
(* rather than at construction: the player stands at the workbench with    *)
(* three items picked up (as found: spawn conditions), having bought the   *)
(* tool upgrade with three earlier trade-ins or not, and has just opened   *)
(* the workbench.  From there the player clicks rows and buttons, presses  *)
(* ESC and E, and repairs until the items run out.                         *)
(***************************************************************************)
Found(typeIndex, roll) ==
    [typeIndex |-> typeIndex, condition |-> SpawnCondition(roll), occupied |-> TRUE]

\* An ELECTRONICS item at 0.9, one at 0.5 and a POWER item at 0.8.
BenchPack ==
    [i \in Slots |-> IF i = 0 THEN Found(0, 600)
                     ELSE IF i = 1 THEN Found(1, 200)
                     ELSE IF i = 2 THEN Found(2, 500)
                     ELSE EmptySlot]

BenchEnv ==
    [chords |-> {{}, {"esc"}, {"e"}},
     clicks |-> WbClicks(3),
     dts |-> {ShortFrame}, longs |-> {LongFrame},
     walk |-> Street({-1}),
     items |-> NumItems, pack |-> 0, tokens |-> 0, logs |-> 0,
     rnds |-> {Rnd(0, 0, 500, AtGate)},
     places |-> {AtGate}]

BenchInit ==
    /\ pc = "update"
    /\ keyEscape = FALSE
    /\ mouseClick = NoClick
    /\ playerPos \in Street({-1})
    /\ worldItems \in Worlds(BenchEnv)
    /\ inventory = BenchPack
    /\ workbenchState = "Open"
    /\ repairSlot = -1
    /\ sacrificeSlot = -1
    /\ repairTimer = 0
    /\ tokenCount = 0
    /\ tradeScreenOpen = FALSE
    /\ dataLogsPurchased = 0
    /\ toolUpgradePurchased \in BOOLEAN
    /\ carryUpgradePurchased = FALSE
    /\ maxInventory = 8
    /\ baseRepairBonus = IF toolUpgradePurchased THEN F32_0_25 ELSE F32_0_2
    /\ tradeIns = IF toolUpgradePurchased THEN ToolCost ELSE 0
    /\ tokenAnimTimer = 0
    /\ selectedTradeSlot = -1
    /\ dataLogViewerOpen = FALSE
    /\ dataLogViewerIndex = 0
    /\ fullMsgTimer = 0
    /\ inventoryOpen = FALSE
    /\ inventoryTab = 0
    /\ StormInit({CALM_MIN})
    /\ SceneInit

BenchFrame == \E in \in Frames(BenchEnv) : CalmWeather /\ StillScene /\ Update(in)

BenchNext ==
    \/ BenchFrame
    \/ DrawWorkbenchUI

SpecBench == BenchInit /\ [][BenchNext]_vars

(***************************************************************************)
(* Properties                                                              *)
(***************************************************************************)
OpenScreens ==
    {n \in {"inventory", "workbench", "trade", "viewer"} :
        \/ n = "inventory" /\ inventoryOpen
        \/ n = "workbench" /\ workbenchState # "Closed"
        \/ n = "trade" /\ tradeScreenOpen
        \/ n = "viewer" /\ dataLogViewerOpen}

\* C1: at the end of every frame at most one of the inventory screen, the
\* workbench (state other than Closed), the trade screen and the log viewer
\* is open.
ModalExclusive ==
    pc = "update" => Cardinality(OpenScreens) <= 1

Occupied == {i \in Slots : inventory[i].occupied}

\* C2: the occupied slots never number more than maxInventory and none has an
\* index of maxInventory or more; the step that raises maxInventory (the carry
\* upgrade, 8 to 10) leaves every slot as it was; and on a full inventory
\* AddToInventory returns false and changes no slot, whatever the item.
InventoryWithinCapacity ==
    /\ Cardinality(Occupied) <= maxInventory
    /\ \A i \in Occupied : i < maxInventory
    /\ Cardinality(Occupied) = maxInventory =>
          \A t \in 0 .. NUM_ITEM_TYPES - 1 : \A roll \in {0, 500, 600} :
              LET r == AddToInventory(inventory, t, SpawnCondition(roll), maxInventory)
              IN  ~r.ok /\ r.inventory = inventory
CapacityKept ==
    /\ InventoryWithinCapacity
    /\ [][/\ InventoryWithinCapacity'
          /\ maxInventory' # maxInventory =>
                maxInventory = 8 /\ maxInventory' = 10 /\ inventory' = inventory]_vars
\* The inventory is full at 10 after the carry upgrade and a pickup has just
\* been refused ("inventory full").
FullAtTen ==
    /\ carryUpgradePurchased
    /\ Cardinality(Occupied) = 10
    /\ fullMsgTimer = FULL_MSG_DURATION

\* C3: tokenCount is never negative.
TokensNeverNegative == tokenCount >= 0
\* Every token earned has been spent: a log and both upgrades are bought and
\* nothing is left.
SpentToZero ==
    /\ tokenCount = 0
    /\ dataLogsPurchased >= 1
    /\ toolUpgradePurchased
    /\ carryUpgradePurchased

\* C4: a click on a BUY button that is not allowed (too few tokens, upgrade
\* already bought, five logs bought) leaves tokenCount, dataLogsPurchased, both
\* upgrade flags, baseRepairBonus, maxInventory and the log viewer unchanged;
\* an allowed one takes exactly the cost and applies the effect in that step.
PurchasesAtomic ==
    [][pc = "trade" =>
        LET logTry == Hit(mouseClick, BuyBtnRect(0))
            toolTry == Hit(mouseClick, BuyBtnRect(1))
            carryTry == Hit(mouseClick, BuyBtnRect(2))
            logOk == dataLogsPurchased < 5 /\ tokenCount >= 2 + dataLogsPurchased
            toolOk == ~toolUpgradePurchased /\ tokenCount >= 3
            carryOk == ~carryUpgradePurchased /\ tokenCount >= 4
        IN  /\ logTry /\ ~logOk => UNCHANGED <<shopVars, viewerVars>>
            /\ toolTry /\ ~toolOk => UNCHANGED <<shopVars, viewerVars>>
            /\ carryTry /\ ~carryOk => UNCHANGED <<shopVars, viewerVars>>
            /\ logTry /\ logOk =>
                  /\ tokenCount' = tokenCount - (2 + dataLogsPurchased)
                  /\ dataLogsPurchased' = dataLogsPurchased + 1
                  /\ dataLogViewerOpen'
                  /\ dataLogViewerIndex' = dataLogsPurchased
                  /\ UNCHANGED <<toolUpgradePurchased, carryUpgradePurchased,
                                 baseRepairBonus, maxInventory>>
            /\ toolTry /\ toolOk =>
                  /\ tokenCount' = tokenCount - 3
                  /\ toolUpgradePurchased'
                  /\ baseRepairBonus' = F32_0_25
                  /\ UNCHANGED <<dataLogsPurchased, carryUpgradePurchased,
                                 maxInventory, viewerVars>>
            /\ carryTry /\ carryOk =>
                  /\ tokenCount' = tokenCount - 4
                  /\ carryUpgradePurchased'
                  /\ maxInventory' = 10
                  /\ UNCHANGED <<dataLogsPurchased, toolUpgradePurchased,
                                 baseRepairBonus, viewerVars>>]_vars
\* A second click on the data log's BUY button, with a log bought and too few
\* tokens left for the next, has gone through the trade screen and changed
\* nothing (no token animation was started).
RefusedAfterBought ==
    /\ pc = "viewer"
    /\ Hit(mouseClick, BuyBtnRect(0))
    /\ dataLogsPurchased = 1
    /\ tokenCount \in 1 .. 2
    /\ tokenAnimTimer = 0

\* C5: the workbench state changes only Closed to Open, Open to Repairing,
\* Repairing to Open and Open to Closed; a close request (ESC or the close
\* button) that reaches the workbench while it is Repairing changes nothing.
WorkbenchTransitions ==
    [][/\ workbenchState' # workbenchState =>
            <<workbenchState, workbenchState'>> \in
                {<<"Closed", "Open">>, <<"Open", "Repairing">>,
                 <<"Repairing", "Open">>, <<"Open", "Closed">>}
       /\ /\ pc = "workbench"
          /\ workbenchState = "Repairing"
          /\ keyEscape \/ Hit(mouseClick, WbCloseRect)
          => UNCHANGED benchVars]_vars
\* ESC reaches the workbench in the middle of a repair.
CloseRequestWhileRepairing ==
    /\ pc = "workbench"
    /\ workbenchState = "Repairing"
    /\ repairTimer > 0
    /\ keyEscape

\* The step that completes a repair.
Completion == workbenchState = "Repairing" /\ workbenchState' = "Open"

\* C6: every repair completion raises the condition of one item and removes
\* another: the number of occupied slots drops by exactly 1, and an item that
\* stays has its condition raised (or is at 1.0, the clamp).
RepairCommitsBoth ==
    [][Completion =>
        /\ Cardinality(Occupied') = Cardinality(Occupied) - 1
        /\ \E r \in Occupied :
              /\ inventory'[r].occupied
              /\ \/ inventory'[r].condition > inventory[r].condition
                 \/ inventory'[r].condition = F32_1_0]_vars

\* C7: on completion the repair slot holds min(1.0, old condition + bonus),
\* the bonus being baseRepairBonus + 0.1 when the repair item and the
\* sacrifice item are of one category and baseRepairBonus otherwise.
RepairResult ==
    [][Completion /\ repairSlot \in Occupied =>
        /\ sacrificeSlot \in Occupied
        /\ LET same == ItemCategory(inventory[repairSlot].typeIndex)
                         = ItemCategory(inventory[sacrificeSlot].typeIndex)
               bonus == IF same THEN F32Add(baseRepairBonus, F32Div(1, 10))
                        ELSE baseRepairBonus
               sum == F32Add(inventory[repairSlot].condition, bonus)
           IN  inventory'[repairSlot].condition = IF sum < F32Unit THEN sum ELSE F32Unit]_vars

\* C8: every occupied slot has a condition from 0 to 1.0, whatever repairs
\* were made.
ConditionClamped ==
    \A i \in Occupied : inventory[i].condition >= 0 /\ inventory[i].condition <= F32Unit
\* With the tool upgrade two repairs have been made and the item left is at
\* 1.0, which only a repair produces.
RepairedToFull ==
    /\ toolUpgradePurchased
    /\ Cardinality(Occupied) = 1
    /\ \A i \in Occupied : inventory[i].condition = F32Unit

\* C9: a click on the TRADE button changes the inventory and the token count
\* only if the selected slot is occupied and its condition is at least 0.8:
\* then exactly that slot is cleared (not occupied, condition 0) and
\* tokenCount grows by exactly 1; no other step of the trade screen changes
\* the inventory or adds a token.
TradeInEligibility ==
    [][pc = "trade" =>
        LET sel == selectedTradeSlot
            try == Hit(mouseClick, TradeBtnRect(tokenAnimTimer))
            \* condition >= 4/5, both sides in units of 2^-25 (every
            \* condition of an item is a multiple of 2^-25)
            eligible == /\ sel \in Occupied
                        /\ 5 * (inventory[sel].condition \div 16)
                             >= 4 * (F32Unit \div 16)
        IN  IF try /\ eligible
            THEN /\ inventory' = [inventory EXCEPT ![sel] =
                        [typeIndex |-> @.typeIndex, condition |-> 0, occupied |-> FALSE]]
                 /\ tokenCount' = tokenCount + 1
            ELSE /\ inventory' = inventory
                 /\ tokenCount' <= tokenCount]_vars
\* A token has been earned with an item at exactly 0.8, and the TRADE button
\* is clicked while all the player holds is an item just below 0.8.
TradeClickBelowThreshold ==
    /\ pc = "trade"
    /\ tokenCount >= 1
    /\ Hit(mouseClick, TradeBtnRect(0))
    /\ Occupied # {}
    /\ \A i \in Occupied : inventory[i].condition < F32_0_8

\* C10: a data log purchase is made only with fewer than 5 logs bought, adds
\* exactly one log and costs 2, 3, 4, 5, 6 tokens for the first to the fifth;
\* dataLogsPurchased never exceeds 5 and with 5 logs bought a click on the
\* BUY button changes nothing of the economy.
LogCostTable == <<2, 3, 4, 5, 6>>
LogCostEscalation ==
    [][/\ dataLogsPurchased' \in 0 .. 5
       /\ dataLogsPurchased' # dataLogsPurchased =>
            /\ dataLogsPurchased < 5
            /\ dataLogsPurchased' = dataLogsPurchased + 1
            /\ tokenCount' = tokenCount - LogCostTable[dataLogsPurchased + 1]
       /\ /\ pc = "trade"
          /\ Hit(mouseClick, BuyBtnRect(0))
          /\ tokenCount >= LogCostTable[IF dataLogsPurchased < 5
                                        THEN dataLogsPurchased + 1 ELSE 5]
          => IF dataLogsPurchased < 5
             THEN dataLogsPurchased' = dataLogsPurchased + 1
             ELSE UNCHANGED <<shopVars, viewerVars>>]_vars
\* All five logs are bought and the BUY button is clicked with 6 tokens at hand.
SixthPurchaseAttempt ==
    /\ pc = "trade"
    /\ dataLogsPurchased = 5
    /\ tokenCount >= 6
    /\ Hit(mouseClick, BuyBtnRect(0))

(***************************************************************************)
(* SpecModal: the keys of the world, pressed with and without a screen     *)
(* open.  As Spec, with one item carried at most and without the           *)
(* inventory's and the workbench's rows, but the player also holds D or    *)
(* presses E while pressing ESC or TAB.                                    *)
(***************************************************************************)
ModalEnv ==
    [chords |-> {{}, {"tab"}, {"esc"}, {"e"}, {"a"}, {"d"},
                 {"esc", "d"}, {"tab", "d"}, {"esc", "e"}},
     clicks |-> TradeClicks(1) \cup {Inside(WbCloseRect), Inside(BuyBtnRect(0)), ViewerClick},
     dts |-> {ShortFrame}, longs |-> {LongFrame},
     walk |-> Street(-1 .. 3),
     items |-> NumItems, pack |-> 1, tokens |-> PlayTokens, logs |-> PlayLogs,
     rnds |-> {Rnd(0, 0, 500, AtGate)},
     places |-> {AtGate}]

ModalInit == InitWith(Worlds(ModalEnv))

ModalFrame == \E in \in Frames(ModalEnv) : CalmWeather /\ StillScene /\ Update(in)

ModalNext ==
    \/ ModalFrame
    \/ DrawInventoryScreen
    \/ DrawWorkbenchUI
    \/ DrawTradeScreenUI
    \/ DrawDataLogViewer

SpecModal == ModalInit /\ [][ModalNext]_vars

(***************************************************************************)
(* The E key                                                               *)
(***************************************************************************)
\* No screen is open when the frame reaches the world block: TAB and ESC
\* have been handled by then.
WorldRuns(in) ==
    LET invOpen1 == IF in.tab /\ workbenchState = "Closed" /\ ~tradeScreenOpen
                    THEN ~inventoryOpen ELSE inventoryOpen
        invOpen2 == IF in.esc /\ invOpen1 THEN FALSE ELSE invOpen1
        trade1 == IF in.esc /\ tradeScreenOpen THEN FALSE ELSE tradeScreenOpen
    IN  ~invOpen2 /\ workbenchState = "Closed" /\ ~trade1 /\ ~dataLogViewerOpen

\* What lies in reach of a player at pos as the frame begins.
ItemInReach(pos) ==
    \E i \in Items : worldItems[i].active /\ Near(pos, worldItems[i].position, PICKUP_RADIUS)
GateInReach(pos) == Near(pos, <<GATE_X, GATE_Y>>, GATE_INTERACT_RADIUS)
BenchInReach(pos) == Near(pos, <<WORKBENCH_X, WORKBENCH_Y>>, WORKBENCH_INTERACT_RADIUS)

\* A pickup attempt: an item
\* is taken or the inventory-full notice is raised.
PickupAttempt ==
    Cardinality(Occupied') > Cardinality(Occupied) \/ fullMsgTimer' = FULL_MSG_DURATION

\* C11: an interact press handled with no screen open resolves to at most one
\* of: the trade screen opens, the workbench opens, one pickup attempt (else
\* nothing happens); with no active item in pickup radius the press opens the
\* trade screen inside the gate radius, and the workbench opens only outside
\* the gate radius, inside the workbench radius and with no item in reach; a
\* pickup is attempted exactly when an active item is in reach, and it adds
\* no more than one item.
InteractPriority ==
    [][\A in \in Frames(ModalEnv) : Update(in) /\ in.e /\ WorldRuns(in) =>
          LET pos == playerPos'
              outcomes == {o \in {"trade", "workbench", "pickup"} :
                              \/ o = "trade" /\ tradeScreenOpen'
                              \/ o = "workbench" /\ workbenchState' # "Closed"
                              \/ o = "pickup" /\ PickupAttempt}
          IN  /\ Cardinality(outcomes) <= 1
              /\ ~ItemInReach(pos) /\ GateInReach(pos) => tradeScreenOpen'
              /\ workbenchState' # "Closed" =>
                    ~GateInReach(pos) /\ BenchInReach(pos) /\ ~ItemInReach(pos)
              /\ PickupAttempt <=> ItemInReach(pos)
              /\ Cardinality(Occupied') <= Cardinality(Occupied) + 1]_vars
\* The trade screen has just been opened by a press at the gate, no item in reach.
TradeOpenedAtGate ==
    /\ pc = "trade"
    /\ selectedTradeSlot = -1
    /\ mouseClick = NoClick
    /\ GateInReach(playerPos)
    /\ ~ItemInReach(playerPos)
    /\ tokenCount = 0

FullPickupRejected ==
    [][\A in \in Frames(PackEnv) :
          /\ Update(in) /\ in.e /\ WorldRuns(in)
          /\ ItemInReach(playerPos')
          /\ CountInventory(inventory, maxInventory) = maxInventory
          => /\ \A i \in Items : worldItems[i].active => worldItems'[i] = worldItems[i]
             /\ \A i \in Items :
                   worldItems[i].active /\ Near(playerPos', worldItems[i].position, PICKUP_RADIUS)
                       => worldItems'[i].active /\ worldItems'[i].respawnTimer = 0
             /\ inventory' = inventory
             /\ fullMsgTimer' = FULL_MSG_DURATION
             /\ FULL_MSG_DURATION = 2 * TicksPerSecond]_vars
\* The notice has just been raised: the inventory is full and an active item
\* lies in reach.
FullNoticeRaised ==
    /\ pc = "update"
    /\ fullMsgTimer = FULL_MSG_DURATION
    /\ CountInventory(inventory, maxInventory) = maxInventory
    /\ ItemInReach(playerPos)

(***************************************************************************)
(* Inventory slots                                                         *)
(***************************************************************************)
\* The unoccupied slots below maxInventory.
FreeSlots == {i \in 0 .. maxInventory - 1 : ~inventory[i].occupied}

\* C14: a successful add occupies the unoccupied slot with the smallest index
\* below maxInventory and changes no other slot: so does every pickup, and so
\* would the add of any item to the inventory of any state reached (holes are
\* left by trade-ins; a sacrifice clears its slot in the same way).
LowestIndexFirst ==
    [][/\ \A t \in 0 .. NUM_ITEM_TYPES - 1 :
            LET r == AddToInventory(inventory, t, SpawnCondition(500), maxInventory)
            IN  r.ok <=> FreeSlots # {}
       /\ FreeSlots # {} =>
            LET low == CHOOSE i \in FreeSlots : \A k \in FreeSlots : i <= k
            IN  /\ \A t \in 0 .. NUM_ITEM_TYPES - 1 :
                      LET r == AddToInventory(inventory, t, SpawnCondition(500), maxInventory)
                      IN  /\ r.inventory[low] = [typeIndex |-> t, occupied |-> TRUE,
                                                 condition |-> SpawnCondition(500)]
                          /\ \A j \in Slots \ {low} : r.inventory[j] = inventory[j]
                /\ Cardinality(Occupied') > Cardinality(Occupied) =>
                      /\ inventory'[low].occupied
                      /\ \A j \in Slots \ {low} : inventory'[j] = inventory[j]]_vars
\* An item has just been picked up into slot 0 while slot 1 was free as well
\* and slot 2 occupied: the holes were left by two trade-ins.
HoleFilled ==
    /\ pc = "update"
    /\ Occupied = {0, 2}
    /\ \E i \in Items : /\ ~worldItems[i].active
                        /\ worldItems[i].respawnTimer = RESPAWN_BASE - ShortFrame

(***************************************************************************)
(* Screens and the world                                                   *)
(***************************************************************************)
\* Over the frame the player stays in place, no item is taken from the world
\* or added to the inventory, and neither the trade screen nor the workbench
\* (the screens the E key opens) opens.
WorldSuspended ==
    /\ playerPos' = playerPos
    /\ \A i \in Items : worldItems[i].active => worldItems'[i].active
    /\ Cardinality(Occupied') <= Cardinality(Occupied)
    /\ fullMsgTimer' = fullMsgTimer
    /\ tradeScreenOpen' => tradeScreenOpen
    /\ workbenchState' # "Closed" => workbenchState # "Closed"

StormEnv ==
    [chords |-> {{}}, clicks |-> {},
     dts |-> {1, ShortFrame}, longs |-> {LongFrame},
     walk |-> Street({0}),
     items |-> NumItems, pack |-> 0, tokens |-> 0, logs |-> 0,
     rnds |-> {Rnd(0, 0, 500, AtGate)},
     places |-> {AtGate}]

StormDraws ==
    [calm : {CALM_MIN, CALM_MIN + 1}, active : {ACTIVE_MIN, ACTIVE_MIN + 1}]

StormSpecInit ==
    /\ pc = "update"
    /\ keyEscape = FALSE
    /\ mouseClick = NoClick
    /\ playerPos = <<WORLD_WIDTH \div 2, WORLD_HEIGHT \div 2>>
    /\ worldItems \in Worlds(StormEnv)
    /\ inventory = [i \in Slots |-> EmptySlot]
    /\ workbenchState = "Closed"
    /\ repairSlot = -1
    /\ sacrificeSlot = -1
    /\ repairTimer = 0
    /\ tokenCount = 0
    /\ tradeIns = 0
    /\ tradeScreenOpen = FALSE
    /\ dataLogsPurchased = 0
    /\ toolUpgradePurchased = FALSE
    /\ carryUpgradePurchased = FALSE
    /\ maxInventory = 8
    /\ baseRepairBonus = F32_0_2
    /\ tokenAnimTimer = 0
    /\ selectedTradeSlot = -1
    /\ dataLogViewerOpen = FALSE
    /\ dataLogViewerIndex = 0
    /\ fullMsgTimer = 0
    /\ inventoryOpen = FALSE
    /\ inventoryTab = 0
    /\ StormInit({d.calm : d \in StormDraws})
    /\ SceneInit

StormFrame ==
    \E in \in Frames(StormEnv) : \E draw \in StormDraws :
        Sandstorm(in.dt, draw) /\ StillScene /\ Update(in)

StormNext == StormFrame

SpecStorm == StormSpecInit /\ [][StormNext]_vars

\* The loop runs a frame after a frame until the window closes, and every
\* frame takes time.
SpecStormLive == SpecStorm /\ WF_vars(StormFrame)

StormSuccession ==
    {<<"Calm", "Building">>, <<"Building", "Active">>,
     <<"Active", "Fading">>, <<"Fading", "Calm">>}

\* C16: the storm state changes only from Calm to Building, from Building to
\* Active, from Active to Fading and from Fading to Calm, one state per step;
\* and while frames go by every state is left again and Calm recurs
\* infinitely often.
SandstormCycle ==
    /\ [][stormState' # stormState => <<stormState, stormState'>> \in StormSuccession]_vars
    /\ []<>(stormState # "Calm")
    /\ []<>(stormState # "Building")
    /\ []<>(stormState # "Active")
    /\ []<>(stormState # "Fading")
    /\ []<>(stormState = "Calm")
\* The storm is Calm again after a whole cycle (stormDuration is that of Fading).
CalmAgain ==
    /\ stormState = "Calm"
    /\ stormDuration = STORM_RAMP
    /\ stormElapsed > 0

\* C17: a cycle that starts in Calm with calm timer T and draws the Active
\* duration A is back in Calm, with stormSpeedMult 1.0, once T + 5 + A + 5
\* seconds of frame time have accumulated, whatever the frame deltas: while
\* the storm fades less than that has accumulated, and in Calm the
\* multiplier is 1.0.
StormCycleCloses ==
    /\ stormState = "Fading" => stormElapsed < stormCycle
    /\ stormState = "Calm" => stormSpeedMult = SPEED_FULL

(***************************************************************************)
(* SpecRespawn: an item's life in the world.  The item lies three strides  *)
(* south of the centre, away from the gate and the workbench; the player   *)
(* walks there, picks it up (up to RespawnPack times) and waits for it in  *)
(* frames that divide the shortest wait evenly as well as in long ones;    *)
(* the respawn delay drawn is the shortest or the longest.                 *)
(***************************************************************************)
RespawnPack == 3
RESPAWN_SPREAD == 30                   \* GetRandomValue(0, 30)
South(ks) == {<<WORLD_WIDTH \div 2, WORLD_HEIGHT \div 2 + k * Stride>> : k \in ks}
Cache == CHOOSE p \in South({3}) : TRUE
\* Half of what is left of the shortest wait after the frame of the pickup.
WaitFrame == (RESPAWN_BASE - ShortFrame) \div 2

RespawnEnv ==
    [chords |-> {{}, {"e"}, {"w"}, {"s"}}, clicks |-> {},
     dts |-> {ShortFrame}, longs |-> {WaitFrame, LongFrame},
     walk |-> South(0 .. 3),
     items |-> NumItems, pack |-> RespawnPack, tokens |-> 0, logs |-> 0,
     rnds |-> {Rnd(0, 0, 500, Cache), Rnd(RESPAWN_SPREAD, 1, 0, Cache)},
     places |-> {Cache}]

RespawnInit == InitWith(Worlds(RespawnEnv))

RespawnFrame == \E in \in Frames(RespawnEnv) : CalmWeather /\ StillScene /\ Update(in)

RespawnNext == RespawnFrame

SpecRespawn == RespawnInit /\ [][RespawnNext]_vars

\* C18: at the end of every frame each world item is either active with
\* respawnTimer 0 or inactive with 0 < respawnTimer <= 90 s; respawnTimer is
\* never negative.
ItemLifecycle ==
    \A i \in Items :
        /\ worldItems[i].respawnTimer >= 0
        /\ IF worldItems[i].active
           THEN worldItems[i].respawnTimer = 0
           ELSE /\ worldItems[i].respawnTimer > 0
                /\ worldItems[i].respawnTimer <= RESPAWN_BASE + Seconds(RESPAWN_SPREAD)
\* An item waits to respawn with one tick left on its timer.
AboutToRespawn ==
    \E i \in Items : ~worldItems[i].active /\ worldItems[i].respawnTimer = 1

\* C19: a pickup sets the item's respawnTimer to 60 s plus a whole number of
\* seconds up to 30 (and the respawn loop of the same frame takes the frame's
\* dt off it); in every later frame while the item is inactive the timer
\* decreases by exactly dt; the item is reactivated in exactly the frame in
\* which the timer reaches 0 or less, and the timer is then 0.
RespawnTimerRuns ==
    [][\A in \in Frames(RespawnEnv) : Update(in) => \A i \in Items :
          LET it == worldItems[i]
              left == IF it.active
                      THEN worldItems'[i].respawnTimer + in.dt
                      ELSE it.respawnTimer
          IN  /\ it.active /\ ~worldItems'[i].active =>
                    /\ left \in {RESPAWN_BASE + Seconds(r) : r \in 0 .. RESPAWN_SPREAD}
                    /\ Cardinality(Occupied') = Cardinality(Occupied) + 1
              /\ ~it.active =>
                    IF it.respawnTimer - in.dt <= 0
                    THEN worldItems'[i].active /\ worldItems'[i].respawnTimer = 0
                    ELSE /\ ~worldItems'[i].active
                         /\ worldItems'[i].respawnTimer = it.respawnTimer - in.dt
                         /\ worldItems'[i].position = it.position]_vars
\* An item picked up with the shortest delay has waited one frame after the
\* frame of its pickup, and the next frame of that length brings its timer to 0.
HalfWayBack ==
    \E i \in Items :
        /\ ~worldItems[i].active
        /\ worldItems[i].respawnTimer = WaitFrame
        /\ RESPAWN_BASE - ShortFrame - WaitFrame = WaitFrame

(***************************************************************************)
(* Economy                                                                 *)
(***************************************************************************)
\* C20: across every step dataLogsPurchased never decreases and stays within
\* 0..5, toolUpgradePurchased and carryUpgradePurchased never go from true
\* back to false, and maxInventory never shrinks and is 8 or 10 (10 exactly
\* when the carry upgrade is bought).
EconomyMonotone ==
    [][/\ dataLogsPurchased' >= dataLogsPurchased
       /\ dataLogsPurchased \in 0 .. 5 /\ dataLogsPurchased' \in 0 .. 5
       /\ toolUpgradePurchased => toolUpgradePurchased'
       /\ carryUpgradePurchased => carryUpgradePurchased'
       /\ maxInventory' >= maxInventory
       /\ maxInventory' = IF carryUpgradePurchased' THEN 10 ELSE 8]_vars
\* Everything the shop sells has been bought, and a BUY button is clicked again.
EverythingBought ==
    /\ pc = "trade"
    /\ dataLogsPurchased = 5
    /\ toolUpgradePurchased
    /\ carryUpgradePurchased
    /\ maxInventory = 10
    /\ \E n \in 0 .. 2 : Hit(mouseClick, BuyBtnRect(n))

\* C21: the tool upgrade is bought at most once, for exactly 3 tokens, and the
\* carry upgrade at most once, for exactly 4: a flag changes only from false
\* to true, by a click on its BUY button that takes the price, and a click on
\* the BUY button of an upgrade already bought takes no token.  In every state
\* baseRepairBonus is 0.25 exactly when toolUpgradePurchased (0.2 otherwise)
\* and maxInventory is 10 exactly when carryUpgradePurchased (8 otherwise).
OneShotUpgrades ==
    [][/\ baseRepairBonus = IF toolUpgradePurchased THEN F32_0_25 ELSE F32_0_2
       /\ baseRepairBonus' = IF toolUpgradePurchased' THEN F32_0_25 ELSE F32_0_2
       /\ maxInventory = IF carryUpgradePurchased THEN 10 ELSE 8
       /\ maxInventory' = IF carryUpgradePurchased' THEN 10 ELSE 8
       /\ toolUpgradePurchased' # toolUpgradePurchased =>
            /\ toolUpgradePurchased'
            /\ pc = "trade" /\ Hit(mouseClick, BuyBtnRect(1))
            /\ tokenCount' = tokenCount - 3
       /\ carryUpgradePurchased' # carryUpgradePurchased =>
            /\ carryUpgradePurchased'
            /\ pc = "trade" /\ Hit(mouseClick, BuyBtnRect(2))
            /\ tokenCount' = tokenCount - 4
       /\ pc = "trade" /\ toolUpgradePurchased /\ Hit(mouseClick, BuyBtnRect(1)) =>
            tokenCount' = tokenCount
       /\ pc = "trade" /\ carryUpgradePurchased /\ Hit(mouseClick, BuyBtnRect(2)) =>
            tokenCount' = tokenCount]_vars
\* The BUY button of the tool upgrade is clicked by a player who has the
\* upgrade and the tokens to pay for it again.
ToolBuyRepeated ==
    /\ pc = "trade"
    /\ toolUpgradePurchased
    /\ tokenCount >= 3
    /\ Hit(mouseClick, BuyBtnRect(1))

\* C22: the step of a data log purchase opens the log viewer on the log just
\* bought: the viewer is open after the step, its index is the value
\* dataLogsPurchased had before the purchase (the new count minus 1), and the
\* frame goes on to draw the viewer.
PurchaseOpensViewer ==
    [][dataLogsPurchased' # dataLogsPurchased =>
          /\ dataLogViewerOpen'
          /\ dataLogViewerIndex' = dataLogsPurchased
          /\ dataLogViewerIndex' = dataLogsPurchased' - 1
          /\ pc' = "viewer"]_vars
\* The fifth log has just been bought and the viewer shows the last entry.
FifthLogShown ==
    /\ pc = "viewer"
    /\ Hit(mouseClick, BuyBtnRect(0))
    /\ dataLogsPurchased = 5
    /\ dataLogViewerOpen
    /\ dataLogViewerIndex = 4
    /\ tokenAnimTimer = TOKEN_ANIM_DURATION

(***************************************************************************)
(* SpecActors: the three actors on the inventory.  The player walks        *)
(* between the workbench and the gate, picks up, repairs and trades in,    *)
(* and a frame may bring a key and a click together.                       *)
(***************************************************************************)
ActorsPack == 2
ActorsTokens == 2

ActorsEnv ==
    [chords |-> {{}, {"esc"}, {"e"}, {"a"}, {"d"}},
     clicks |-> WbClicks(2) \cup TradeClicks(2),
     dts |-> {ShortFrame}, longs |-> {LongFrame},
     walk |-> Street(-1 .. 3),
     items |-> NumItems, pack |-> ActorsPack, tokens |-> ActorsTokens, logs |-> 0,
     rnds |-> {Rnd(0, 0, 500, AtGate)},
     places |-> {AtGate}]

\* The frames of env, and those in which a key of a chord comes with a click
\* (wherever the click falls: the key may open the screen it lands on).
KeyAndClick(env) ==
    LET keyed == {in \in Frames(env) : in.click = NoClick /\ (in.esc \/ in.e)}
        clicks == {c \in env.clicks :
                     tradeScreenOpen /\ tokenCount >= env.tokens
                        => ~Hit(c, TradeBtnRect(0)) /\ ~Hit(c, TradeBtnRect(1))}
    IN  Frames(env) \cup {[in EXCEPT !.click = c] : in \in keyed, c \in clicks}

ActorsInit == InitWith(Worlds(ActorsEnv))

ActorsFrame == \E in \in KeyAndClick(ActorsEnv) : CalmWeather /\ StillScene /\ Update(in)

ActorsNext ==
    \/ ActorsFrame
    \/ DrawWorkbenchUI
    \/ DrawTradeScreenUI

SpecActors == ActorsInit /\ [][ActorsNext]_vars

\* The actors, as seen in a step: a pickup occupies a slot, a repair
\* completion ends the state Repairing, a trade-in earns a token.
PickedUp == \E s \in Slots : ~inventory[s].occupied /\ inventory'[s].occupied
RepairCompleted == workbenchState = "Repairing" /\ workbenchState' # "Repairing"
TradedIn == tokenCount' = tokenCount + 1

\* C23: in any one frame at most one of item pickup, repair completion and
\* gate trade-in changes the inventory.  The update does not both pick up and
\* complete a repair; a frame whose update has changed the inventory, or is
\* followed by the workbench screen, does not draw the trade screen with a
\* trade-in; and nothing else changes the inventory.
SingleMutator ==
    [][/\ pc = "update" => ~(PickedUp /\ RepairCompleted)
       /\ pc = "update" /\ (PickedUp \/ RepairCompleted) => ~tradeScreenOpen'
       /\ pc = "workbench" => inventory' = inventory /\ ~tradeScreenOpen'
       /\ pc = "trade" => ~PickedUp /\ ~RepairCompleted
       /\ inventory' # inventory =>
            \/ pc = "update" /\ (PickedUp \/ RepairCompleted)
            \/ pc = "trade" /\ TradedIn]_vars
\* An item has just been picked up at the gate by a player who holds another
\* and has traded in before: the update has changed the inventory and the
\* frame has ended without drawing the trade screen.
PickedUpNoTrade ==
    /\ pc = "update"
    /\ ~tradeScreenOpen
    /\ Cardinality(Occupied) = 2
    /\ tokenCount = 1
    /\ \E i \in Items : /\ ~worldItems[i].active
                        /\ worldItems[i].respawnTimer = RESPAWN_BASE - ShortFrame


(***************************************************************************)
(* The inventory key                                                       *)
(***************************************************************************)
\* The update opens the inventory screen (only the TAB key does).
InventoryOpened == pc = "update" /\ ~inventoryOpen /\ inventoryOpen'

\* C24: the inventory screen is opened only from a state in which the
\* workbench is Closed, the trade screen is closed and the log viewer is
\* closed.
InventoryOpensFromNone ==
    [][InventoryOpened =>
         workbenchState = "Closed" /\ ~tradeScreenOpen /\ ~dataLogViewerOpen]_vars


(***************************************************************************)
(* Closing a screen                                                        *)
(***************************************************************************)
\* A step of the frame in which a screen handles its close action: the
\* cancel key reaches the last screen drawn in the frame, or the click is on
\* the close control of the screen being drawn.  A click on the trade screen's
\* CLOSE button that is also on the viewer's, with the viewer still to be
\* drawn, is counted when the viewer handles it.
CloseHandled ==
    \/ pc # "update" /\ pc' = "update" /\ keyEscape
    \/ pc = "workbench" /\ workbenchState # "Repairing" /\ Hit(mouseClick, WbCloseRect)
    \/ /\ pc = "trade" /\ Hit(mouseClick, TradeCloseRect)
       /\ ~(pc' = "viewer" /\ Hit(mouseClick, ViewerCloseRect))
    \/ pc = "viewer" /\ Hit(mouseClick, ViewerCloseRect)

\* C25: once a screen has handled its close action, the frame ends with no
\* modal screen open, except that the workbench stays open while Repairing.
CloseReturnsToNone ==
    [][CloseHandled => OpenScreens' = {} \/ workbenchState' = "Repairing"]_vars


(***************************************************************************)
(* The REPAIR button                                                       *)
(***************************************************************************)
\* The workbench is drawn in a frame with a click on the REPAIR button.
RepairRequest == pc = "workbench" /\ Hit(mouseClick, WbRepairRect)

\* State Open with a repair slot and a sacrifice slot, both occupied.
RepairReady ==
    /\ workbenchState = "Open"
    /\ repairSlot \in Slots /\ sacrificeSlot \in Slots
    /\ inventory[repairSlot].occupied /\ inventory[sacrificeSlot].occupied

\* C26: a repair starts only on a request in state Open with both slots
\* selected and occupied, and then the state is Repairing and repairTimer 0;
\* a request in any other situation changes neither the workbench state, the
\* timer, the selections nor the inventory.
RepairStartsWhenReady ==
    [][/\ workbenchState # "Repairing" /\ workbenchState' = "Repairing"
            => RepairRequest /\ RepairReady
       /\ RepairRequest /\ RepairReady
            => /\ workbenchState' = "Repairing" /\ repairTimer' = 0
               /\ UNCHANGED <<repairSlot, sacrificeSlot, inventory>>
       /\ RepairRequest /\ ~RepairReady
            => UNCHANGED <<workbenchState, repairTimer, repairSlot, sacrificeSlot,
                           inventory>>]_vars

\* A repair has just been started.
RepairStarted ==
    /\ pc = "update" /\ workbenchState = "Repairing" /\ repairTimer = 0
    /\ repairSlot \in Occupied /\ sacrificeSlot \in Occupied


(***************************************************************************)
(* The workbench selections                                                *)
(***************************************************************************)
\* A selection is none or the index of an occupied slot below maxInventory.
SelectionOk(s) ==
    s = -1 \/ (s \in 0 .. maxInventory - 1 /\ inventory[s].occupied)

SelectionsOk ==
    /\ SelectionOk(repairSlot) /\ SelectionOk(sacrificeSlot)
    /\ repairSlot # -1 => repairSlot # sacrificeSlot
    /\ workbenchState = "Closed" => repairSlot = -1 /\ sacrificeSlot = -1

\* C27: in every reachable state each of repairSlot and sacrificeSlot is none
\* or the index of an occupied slot below maxInventory, the two never name the
\* same slot, both are none while the workbench is Closed, and both are none
\* at the moment the workbench enters Open.
WorkbenchSelection ==
    /\ []SelectionsOk
    /\ [][workbenchState # "Open" /\ workbenchState' = "Open"
            => repairSlot' = -1 /\ sacrificeSlot' = -1]_vars

\* Two different items are selected at the open workbench.
TwoSelected ==
    /\ pc = "update" /\ workbenchState = "Open"
    /\ repairSlot \in Occupied /\ sacrificeSlot \in Occupied


(***************************************************************************)
(* Slot selection                                                          *)
(***************************************************************************)
\* The occupied row under the click while the workbench is drawn, if any.
ClickedRows ==
    {i \in 0 .. maxInventory - 1 :
        pc = "workbench" /\ inventory[i].occupied /\ Hit(mouseClick, WbRowRect(i))}

\* C28: in state Open a click on an occupied row clears the assignment of an
\* assigned row, and otherwise puts the row into repairSlot if that is none,
\* else into sacrificeSlot if that is none; in state Repairing no step but
\* the completion changes repairSlot or sacrificeSlot.
SelectionWhileOpen ==
    [][/\ \A i \in ClickedRows : workbenchState = "Open" =>
            /\ repairSlot' = IF repairSlot = i THEN -1
                             ELSE IF sacrificeSlot # i /\ repairSlot = -1 THEN i
                             ELSE repairSlot
            /\ sacrificeSlot' = IF repairSlot = i THEN sacrificeSlot
                                ELSE IF sacrificeSlot = i THEN -1
                                ELSE IF repairSlot # -1 /\ sacrificeSlot = -1 THEN i
                                ELSE sacrificeSlot
       /\ workbenchState = "Repairing" /\ workbenchState' = "Repairing"
            => UNCHANGED <<repairSlot, sacrificeSlot>>]_vars


(***************************************************************************)
(* SpecRepairLive: the workbench of SpecBench with the TAB key added and   *)
(* the game loop running for ever: every frame is updated and drawn.       *)
(***************************************************************************)
RepairEnv == [BenchEnv EXCEPT !.chords = @ \cup {{"tab"}}]

RepairFrame == \E in \in Frames(RepairEnv) : CalmWeather /\ StillScene /\ Update(in)

RepairNext ==
    \/ RepairFrame
    \/ DrawInventoryScreen
    \/ DrawWorkbenchUI

SpecRepairLive == BenchInit /\ [][RepairNext]_vars /\ WF_vars(RepairNext)

SelectionsCleared == repairSlot = -1 /\ sacrificeSlot = -1

\* C29: a started repair always completes.  Every update in state Repairing
\* advances repairTimer whatever the input; the update that brings it to
\* 2.0 s leaves the state Open with both selections cleared, and until then
\* no step leaves Repairing; and from Repairing the state Open with both
\* selections cleared is always reached while frames keep arriving.
RepairAlwaysCompletes ==
    /\ [][workbenchState = "Repairing" =>
            /\ pc = "update" => repairTimer' > repairTimer
            /\ pc = "update" /\ repairTimer' >= REPAIR_DURATION
                 => workbenchState' = "Open" /\ SelectionsCleared'
            /\ ~(pc = "update" /\ repairTimer' >= REPAIR_DURATION)
                 => workbenchState' = "Repairing"]_vars
    /\ workbenchState = "Repairing"
          ~> (workbenchState = "Open" /\ SelectionsCleared)

\* The first repair has run to its end: the workbench is drawn Open again,
\* nothing selected, one item gone, in a frame with the cancel key down.
RepairOver ==
    /\ pc = "workbench" /\ workbenchState = "Open" /\ SelectionsCleared
    /\ repairTimer >= REPAIR_DURATION
    /\ Cardinality(Occupied) = 2
    /\ keyEscape


(***************************************************************************)
(* SpecTimer: the workbench of SpecBench with frames of 0.4 s and of 0.6 s,*)
(* so that the repair timer can reach 2.0 s and can pass it.               *)
(***************************************************************************)
TimerEnv == [BenchEnv EXCEPT !.dts = {ShortFrame, ShortFrame + 1}]

TimerFrame == \E in \in Frames(TimerEnv) : CalmWeather /\ StillScene /\ Update(in)

TimerNext ==
    \/ TimerFrame
    \/ DrawWorkbenchUI

SpecTimer == BenchInit /\ [][TimerNext]_vars

\* C30 as stated: repairTimer stays within 0 .. 2 s in every reachable state.
RepairTimerInRange == repairTimer \in 0 .. REPAIR_DURATION

\* C30, amended: repairTimer is never negative, is below 2 s whenever the
\* state is Repairing, and advances only from a value below 2 s and only in
\* state Repairing, so that it passes 2 s by less than one frame delta.
RepairTimerBounded ==
    /\ [](repairTimer >= 0 /\ (workbenchState = "Repairing" => repairTimer < REPAIR_DURATION))
    /\ [][repairTimer' > repairTimer =>
            workbenchState = "Repairing" /\ repairTimer < REPAIR_DURATION]_vars

\* The repair is over and the timer stands above 2 s.
RepairTimerOvershoot ==
    pc = "update" /\ workbenchState = "Open" /\ repairTimer > REPAIR_DURATION


(***************************************************************************)
(* SpecPickup: the world of SpecRespawn with one item more; all items lie  *)
(* at the cache, so that several are in reach of one press, and the player *)
(* carries as many items as there are.  No frame is                        *)
(* as long as the shortest respawn delay: an item taken in a frame is      *)
(* still inactive at its end.                                              *)
(***************************************************************************)
\* GetRandomValue may also give a respawning item the greatest condition
\* roll, the last type and a place in a corner of the respawn area.
Corner == <<100, WORLD_HEIGHT - 100>>
PickupEnv ==
    [RespawnEnv EXCEPT !.items = NumItems + 1, !.pack = NumItems + 1,
                       !.longs = {WaitFrame},
                       !.rnds = @ \cup {Rnd(0, NUM_ITEM_TYPES - 1, 600, Corner)}]

PickupFrame == \E in \in Frames(PickupEnv) : CalmWeather /\ StillScene /\ Update(in)

PickupInit == InitWith(Worlds(PickupEnv))

SpecPickup == PickupInit /\ [][PickupFrame]_vars

\* The items a frame takes out of the world and the slots it fills.
Taken == {i \in Items : worldItems[i].active /\ ~worldItems'[i].active}
Filled == {s \in Slots : ~inventory[s].occupied /\ inventory'[s].occupied}

\* C31: a frame deactivates at most one world item and fills at most one
\* slot; the item taken is the lowest-index active item within the pickup
\* radius of the player, the slot filled receives its typeIndex and
\* condition and no other slot changes; every other active item is unchanged
\* and every other inactive item only waits or respawns.
OnePickupPerPress ==
    [][/\ Cardinality(Taken) <= 1 /\ Cardinality(Filled) <= 1
       /\ Taken = {} => inventory' = inventory
       /\ \A i \in Taken :
            /\ Near(playerPos', worldItems[i].position, PICKUP_RADIUS)
            /\ \A j \in Items :
                 j < i /\ worldItems[j].active
                    => ~Near(playerPos', worldItems[j].position, PICKUP_RADIUS)
            /\ \E s \in Filled :
                 /\ inventory'[s].typeIndex = worldItems[i].typeIndex
                 /\ inventory'[s].condition = worldItems[i].condition
                 /\ \A t \in Slots \ {s} : inventory'[t] = inventory[t]
       /\ \A j \in Items \ Taken :
            IF worldItems[j].active THEN worldItems'[j] = worldItems[j]
            ELSE \/ worldItems'[j].active
                 \/ /\ worldItems'[j].respawnTimer <= worldItems[j].respawnTimer
                    /\ worldItems'[j] = [worldItems[j] EXCEPT
                                           !.respawnTimer = worldItems'[j].respawnTimer]]_vars

\* The first item has just been taken with a second one in reach, which is
\* still there.
OneOfTwoTaken ==
    /\ Cardinality(Occupied) = 1
    /\ ~worldItems[0].active
    /\ worldItems[0].respawnTimer \in {RESPAWN_BASE - ShortFrame,
                                       RESPAWN_BASE + Seconds(RESPAWN_SPREAD) - ShortFrame}
    /\ worldItems[1].active
    /\ Near(playerPos, worldItems[1].position, PICKUP_RADIUS)


(***************************************************************************)
(* Respawn placement                                                       *)
(***************************************************************************)
\* The greatest number of units that is at most n/d, and the least that is
\* at least n/d (n/d not a whole number of units).
UnitsBelow(n, d) == (F32Unit \div d) * n + ((F32Unit % d) * n) \div d
UnitsAbove(n, d) == UnitsBelow(n, d) + 1

Reactivated == {i \in Items : ~worldItems[i].active /\ worldItems'[i].active}

\* C32: every reactivated item has a position that is 200 or more from the
\* world centre on at least one axis and inside the world, a type index in
\* 0 .. 4 and a condition in [0.3, 0.9].
RespawnPlacement ==
    [][\A i \in Reactivated :
         LET it == worldItems'[i]
             dx == it.position[1] - WORLD_WIDTH \div 2
             dy == it.position[2] - WORLD_HEIGHT \div 2
         IN  /\ dx >= 200 \/ dx <= -200 \/ dy >= 200 \/ dy <= -200
             /\ it.position[1] \in 0 .. WORLD_WIDTH
             /\ it.position[2] \in 0 .. WORLD_HEIGHT
             /\ it.typeIndex \in 0 .. 4
             /\ it.condition >= UnitsAbove(3, 10)
             /\ it.condition <= UnitsBelow(9, 10)]_vars


(***************************************************************************)
(* SpecRespawnLive: the screens of SpecModal with waiting frames shorter   *)
(* than a respawn delay, so that an item stays away while screens are      *)
(* opened and closed, and the game loop running for ever.                  *)
(***************************************************************************)
RespawnLiveEnv == [ModalEnv EXCEPT !.longs = {WaitFrame}]

RespawnLiveFrame == \E in \in Frames(RespawnLiveEnv) : CalmWeather /\ StillScene /\ Update(in)

RespawnLiveNext ==
    \/ RespawnLiveFrame
    \/ DrawInventoryScreen
    \/ DrawWorkbenchUI
    \/ DrawTradeScreenUI
    \/ DrawDataLogViewer

SpecRespawnLive == ModalInit /\ [][RespawnLiveNext]_vars /\ WF_vars(RespawnLiveNext)

\* C33: every item that is picked up is active again later, whatever screens
\* are open meanwhile, as long as frames keep arriving.
RespawnLiveness ==
    \A i \in 0 .. NumItems - 1 : ~worldItems[i].active ~> worldItems[i].active

\* An item is away and the trade screen is open at the end of a frame.
AwayUnderTradeScreen ==
    /\ pc = "update" /\ tradeScreenOpen
    /\ \E i \in Items : ~worldItems[i].active /\ worldItems[i].respawnTimer > 0


(***************************************************************************)
(* The storm's modifiers                                                   *)
(***************************************************************************)
StormModifiersOk ==
    /\ stormPhase \in 0 .. SPEED_FULL
    /\ stormSpeedMult \in SPEED_STORM .. SPEED_FULL
    /\ stormState \in {"Calm", "Building"} => stormSpeedMult = SPEED_FULL
    /\ stormState = "Active" => stormSpeedMult = SPEED_STORM

\* C34: at the end of every frame stormPhase is in [0, 1] and stormSpeedMult
\* in [0.7, 1.0]; the multiplier is 1.0 in Calm and Building and 0.7 in
\* Active, and from frame to frame of Fading it does not decrease.
StormModifiers ==
    /\ []StormModifiersOk
    /\ [][stormState = "Fading" /\ stormState' = "Fading"
            => stormSpeedMult' >= stormSpeedMult]_vars

\* The storm is fading and the speed is on its way back.
SpeedComingBack ==
    /\ stormState = "Fading"
    /\ stormSpeedMult > SPEED_STORM /\ stormSpeedMult < SPEED_FULL
    /\ stormPhase > 0 /\ stormPhase < SPEED_FULL


(***************************************************************************)
(* SpecDay: the clock of the day.  The player stands still; a frame lasts  *)
(* 0.2 s or 0.4 s, or, while the clock is below the period, 200 s or 320 s *)
(* (the window was dragged, the process was stopped).                      *)
(***************************************************************************)
DAY_DURATION == 180

\* dayTimer += deltaTime; if (dayTimer >= DAY_DURATION) dayTimer -= DAY_DURATION;
DayNight(dt) ==
    dayTimer' = IF dayTimer + dt >= Seconds(DAY_DURATION)
                THEN dayTimer + dt - Seconds(DAY_DURATION)
                ELSE dayTimer + dt

\* dayPhase = dayTimer / DAY_DURATION, in thousandths
dayPhase == (dayTimer * 1000) \div Seconds(DAY_DURATION)

DayEnv ==
    [StormEnv EXCEPT !.dts = {1, ShortFrame, Seconds(200), Seconds(320)}]

DayInit == InitWith(Worlds(DayEnv))

DayFrame ==
    \E in \in Frames(DayEnv) :
        /\ in.dt > ShortFrame => dayTimer < Seconds(DAY_DURATION)
        /\ CalmWeather /\ DayNight(in.dt) /\ UNCHANGED facing /\ Update(in)

SpecDay == DayInit /\ [][DayFrame]_vars

\* C35: after every frame dayPhase is in [0, 1), whatever the frame delta.
DayPhaseInRange == dayPhase >= 0 /\ dayPhase < 1000


(***************************************************************************)
(* SpecWalk: walking at the edge of the world.  The sandstorm runs; the    *)
(* player walks in every direction, with keys that cancel and with the     *)
(* inventory open, in frames of 1 s and, while the storm's state has that  *)
(* long to go, of 30 s (which carry the player from the centre to an       *)
(* edge), and                                                              *)
(* stays at the centre, in two opposite corners of the world and one step  *)
(* of 1 s from such a corner.                                              *)
(***************************************************************************)
\* facing.x = movement.x; facing.y = movement.y; in the world block, if moving
Facing(in) ==
    LET mx == (IF in.d THEN 1 ELSE 0) - (IF in.a THEN 1 ELSE 0)
        my == (IF in.s THEN 1 ELSE 0) - (IF in.w THEN 1 ELSE 0)
        n == IF mx # 0 /\ my # 0 THEN 707 ELSE 1000
    IN  facing' = IF WorldRuns(in) /\ (mx # 0 \/ my # 0) THEN <<mx * n, my * n>>
                  ELSE facing

WalkStep == Seconds(1)
WalkTrip == Seconds(30)
WalkDraw == [calm |-> CALM_MIN, active |-> ACTIVE_MIN]

WalkChords ==
    {{}, {"w"}, {"a"}, {"s"}, {"d"}, {"w", "a"}, {"w", "d"}, {"s", "d"},
     {"w", "s"}, {"tab"}}

WalkEnv ==
    [StormEnv EXCEPT !.chords = WalkChords,
                     !.dts = {WalkStep, WalkTrip},
                     !.walk = (-WORLD_WIDTH .. 2 * WORLD_WIDTH)
                                \X (-WORLD_HEIGHT .. 2 * WORLD_HEIGHT)]

WorldCorners == {<<0, 0>>, <<WORLD_WIDTH, WORLD_HEIGHT>>}

WalkPlaces ==
    {<<WORLD_WIDTH \div 2, WORLD_HEIGHT \div 2>>}
        \cup {Move(c, Input(K, NoClick, WalkStep, "ELECTRONICS", <<>>), m) :
                c \in WorldCorners, K \in WalkChords, m \in SPEED_STORM .. SPEED_FULL}

WalkInit == InitWith(Worlds(WalkEnv))

WalkUpdate(in) ==
    /\ in.dt = WalkTrip => stormTimer >= WalkTrip
    /\ Sandstorm(in.dt, WalkDraw) /\ Facing(in) /\ UNCHANGED dayTimer /\ Update(in)
    /\ playerPos' \in WalkPlaces

WalkFrame == \E in \in Frames(WalkEnv) : WalkUpdate(in)

WalkNext ==
    \/ WalkFrame
    \/ DrawInventoryScreen

SpecWalk == WalkInit /\ [][WalkNext]_vars

\* A frame in which no directional key is held.
WalkIdle ==
    \E in \in Frames(WalkEnv) : ~(in.w \/ in.a \/ in.s \/ in.d) /\ WalkUpdate(in)

\* Along axis i the player has gone the way the keys said, as far as the
\* world goes; facing' is the direction of the frame that moved.
AxisFollows(i, limit) ==
    /\ facing'[i] = 0 => playerPos'[i] = playerPos[i]
    /\ facing'[i] > 0 => playerPos'[i] > playerPos[i] \/ playerPos'[i] = limit
    /\ facing'[i] < 0 => playerPos'[i] < playerPos[i] \/ playerPos'[i] = 0

\* C36: after every frame the player position is within [0, 4000] on each
\* axis, whatever the keys, the frame deltas and the storm multiplier; each
\* axis is clamped by itself (an axis held at the edge does not stop the
\* other), and a frame with no directional key held changes neither the
\* position nor the facing.
PlayerStaysInWorld ==
    /\ [](playerPos[1] \in 0 .. WORLD_WIDTH /\ playerPos[2] \in 0 .. WORLD_HEIGHT)
    /\ [][playerPos' # playerPos \/ facing' # facing
            => AxisFollows(1, WORLD_WIDTH) /\ AxisFollows(2, WORLD_HEIGHT)]_vars
    /\ [][WalkIdle => UNCHANGED <<playerPos, facing>>]_vars

\* In the storm the player has gone up and to the right along the upper
\* edge of the world: held on one axis, moved on the other.
HeldOnOneAxis ==
    /\ stormState = "Active"
    /\ facing = <<707, -707>>
    /\ playerPos[2] = 0
    /\ playerPos[1] > 0 /\ playerPos[1] < WORLD_WIDTH


(***************************************************************************)
(* Timed effects                                                           *)
(***************************************************************************)
\* C37: once raised, the inventory-full notice timer decreases by the frame
\* time in every following frame until it is 0 (or is raised anew by that
\* frame), whether or not a screen is open.
NoticeRunsOnFrameTime ==
    [][pc = "update" /\ fullMsgTimer > 0
        => \/ \E dt \in PackEnv.dts \cup PackEnv.longs :
                fullMsgTimer' = Max0(fullMsgTimer - dt)
           \/ fullMsgTimer' = FULL_MSG_DURATION]_vars


(***************************************************************************)
(* SpecLogs: reading the data logs.  From construction the player earns up *)
(* to LogsTokens tokens at the gate, buys up to LogsBought logs and opens  *)
(* the inventory, where the rows of the LOGS tab are clicked, acquired or  *)
(* locked.                                                                 *)
(***************************************************************************)
LogsTokens == 5
LogsBought == 2

LogsEnv ==
    [ShopEnv EXCEPT !.chords = @ \cup {{"tab"}},
                    !.clicks = TradeClicks(1)
                        \cup {Inside(BuyBtnRect(0)), ViewerClick, Inside(InvTabRect(1, 8))}
                        \cup {Inside(InvLogRowRect(i, 8)) : i \in 0 .. LogsBought},
                    !.tokens = LogsTokens, !.logs = LogsBought,
                    !.rnds = {Rnd(0, 0, 500, AtGate)}]

LogsInit == InitWith(Worlds(LogsEnv))

LogsFrame == \E in \in Frames(LogsEnv) : CalmWeather /\ StillScene /\ Update(in)

LogsNext ==
    \/ LogsFrame
    \/ DrawInventoryScreen
    \/ DrawTradeScreenUI
    \/ DrawDataLogViewer

SpecLogs == LogsInit /\ [][LogsNext]_vars

\* C38: whenever the log viewer is open its index refers to a purchased log,
\* 0 <= dataLogViewerIndex < dataLogsPurchased, whether the viewer was opened
\* by a purchase on the trade screen or from the LOGS tab of the inventory.
ViewerShowsPurchasedLog ==
    dataLogViewerOpen => dataLogViewerIndex >= 0 /\ dataLogViewerIndex < dataLogsPurchased

\* The viewer has been opened from the LOGS tab of the inventory on the first
\* of two purchased logs.
FirstLogReadAgain ==
    /\ pc = "viewer"
    /\ dataLogViewerOpen /\ inventoryOpen /\ inventoryTab = 1 /\ ~tradeScreenOpen
    /\ Hit(mouseClick, InvLogRowRect(0, maxInventory))
    /\ dataLogViewerIndex = 0
    /\ dataLogsPurchased = 2

(***************************************************************************)
(* The token account                                                       *)
(***************************************************************************)
RECURSIVE LogsCost(_)
\* What the first n data logs cost together: the sum of 2 + k for k < n.
LogsCost(n) == IF n = 0 THEN 0 ELSE LogsCost(n - 1) + LogCost(n - 1)

\* The cost of all purchases made.
Spent ==
    LogsCost(dataLogsPurchased)
        + (IF toolUpgradePurchased THEN ToolCost ELSE 0)
        + (IF carryUpgradePurchased THEN CarryCost ELSE 0)

\* C39: in every state tokenCount is the number of trade-ins made minus the
\* cost of all purchases made (2 + k for each log k bought, 3 for the tool
\* upgrade, 4 for the carry upgrade); tokens come from trade-ins only, one
\* for each item removed; and no more than 27 tokens are ever spent.
TokenConservation ==
    /\ [](tokenCount = tradeIns - Spent /\ Spent <= 27)
    /\ [][tokenCount' > tokenCount
            => /\ pc = "trade"
               /\ tokenCount' = tokenCount + 1
               /\ tradeIns' = tradeIns + 1
               /\ \E s \in Slots :
                    /\ inventory[s].occupied
                    /\ inventory' = ClearSlot(inventory, s)]_vars

\* The shop is sold out, all 27 tokens spent, and more tokens are at hand.
SoldOut ==
    /\ Spent = 27
    /\ tradeIns > 27
    /\ tokenCount > 0


(***************************************************************************)
(* SpecZones: the village.  From construction the player walks along the   *)
(* axes, in frames of 0.2 s and 0.4 s, over the ground that holds the gate *)
(* and the workbench with their zones, and presses E and ESC anywhere; the *)
(* items lie out of reach.                                                 *)
(***************************************************************************)
Village ==
    (WORKBENCH_X - 80 .. GATE_X + 80) \X (WORKBENCH_Y - 80 .. GATE_Y + 80)

ZonesEnv ==
    [chords |-> {{}, {"e"}, {"esc"}, {"w"}, {"a"}, {"s"}, {"d"}},
     clicks |-> {},
     dts |-> {1, ShortFrame}, longs |-> {LongFrame},
     walk |-> Village,
     items |-> NumItems, pack |-> 0, tokens |-> 0, logs |-> 0,
     rnds |-> {Rnd(0, 0, 500, Cache)},
     places |-> {Cache}]

ZonesInit == InitWith(Worlds(ZonesEnv))

ZonesFrame == \E in \in Frames(ZonesEnv) : CalmWeather /\ StillScene /\ Update(in)

ZonesNext ==
    \/ ZonesFrame
    \/ DrawWorkbenchUI
    \/ DrawTradeScreenUI

SpecZones == ZonesInit /\ [][ZonesNext]_vars

\* The square of the distance between the two anchors.
AnchorsApart ==
    (GATE_X - WORKBENCH_X) * (GATE_X - WORKBENCH_X)
        + (GATE_Y - WORKBENCH_Y) * (GATE_Y - WORKBENCH_Y)

\* C40: the gate zone (70 around (2200, 2000)) and the workbench zone (60
\* around (1940, 1962)) do not overlap: the anchors are farther apart than
\* the two radii together, and the player is never in both zones at once.
ZonesDisjoint ==
    /\ <<GATE_X, GATE_Y>> = <<2200, 2000>>
    /\ <<WORKBENCH_X, WORKBENCH_Y>> = <<1940, 1962>>
    /\ AnchorsApart > (GATE_INTERACT_RADIUS + WORKBENCH_INTERACT_RADIUS)
                        * (GATE_INTERACT_RADIUS + WORKBENCH_INTERACT_RADIUS)
    /\ ~(GateInReach(playerPos) /\ BenchInReach(playerPos))

\* The player has opened the trade screen from the side of the gate zone that
\* looks to the workbench.
AtGateFromBenchSide ==
    /\ tradeScreenOpen
    /\ GateInReach(playerPos)
    /\ playerPos[1] < GATE_X
    /\ ~BenchInReach(playerPos)

====
